---------------------------- MODULE Spec2Model ----------------------------
(***************************************************************************)
(* claude-sound: the managed-hook reconciler of src/src/hooks.js, the      *)
(* preview player of src/src/play.js, the sound catalog of                 *)
(* src/src/sounds.js, the acquisition adapters of src/src/tts.js and       *)
(* src/src/import-sound.js and the interactive editor of src/src/cli.js.   *)
(*                                                                         *)
(* JavaScript strings are sequences of one-character strings, so that      *)
(* includes(), the regular expressions and the command template are        *)
(* computed character by character.  JSON values carry their type tag,     *)
(* so that typeof, Array.isArray, optional chaining and truthiness are     *)
(* decided as the code decides them.  A thrown Error is a result record    *)
(* with ok = FALSE.                                                        *)
(***************************************************************************)
EXTENDS Integers, Sequences, FiniteSets, TLC

VARIABLES
    settings,   \* applyMappingsToSettings: the caller's settings document
    mappings,   \* applyMappingsToSettings: Object.entries(mappings), in order
    first,      \* result of applyMappingsToSettings(settings, mappings)
    produced,   \* the command strings built during that call
    second,     \* result of applyMappingsToSettings(first.value, mappings)
    extracted,  \* getExistingManagedMappings(first.value)
    arg,        \* validateSoundId / validateEventName: the argument
    verdict,    \* validateSoundId / validateEventName: returned or thrown
    heap,       \* the objects and arrays of the JavaScript heap, by address
    roots,      \* the references the caller holds: its settings and mappings
    returned,   \* the reference applyMappingsToSettings returned, or its throw
    pc,         \* position of the driver
    previewProcess,  \* play.js _previewProcess: the tracked child, or none
    procs,           \* every child process spawned for a preview, in order
    signals,         \* the kill calls issued, in order
    resolvedPlayer,  \* play.js _resolvedPlayer
    platform,        \* os.platform()
    installed,       \* the executables findExecutable finds in PATH
    lastStart,       \* the child the latest playSoundPreview spawned, or none
    called,          \* the latest call of play.js and what it returned or threw
    soundPathCache,  \* sounds.js _soundPathCache
    files,           \* the files and directories the catalog reads
    tasks,           \* the listing calls made, each with its position
    looked,          \* the latest resolveSoundPath call and its outcome
    atInvalidate,    \* the custom sound files at the latest invalidation
    acqInput,        \* generateTts / importSound: the argument
    acqAt,           \* generateTts / importSound: the await the call is at
    effects,         \* the file-system and network requests the call issued
    acqResult,       \* what the call returned or threw
    source,          \* importSound: what fs.stat and fs.readFile find at the path
    bytes,           \* the content of each file of the custom directory
    imported,        \* importSound: what the earlier calls returned, in order
    disk,            \* the settings file on disk
    writes,          \* the documents handed to fs.writeFile for it, in order
    edAt,            \* interactiveSetup: the prompt or await it is at
    chosen,          \* interactiveSetup: the event picked in the main menu
    edits            \* interactiveSetup: edits made to the mappings so far

varsReconciler == << settings, mappings, first, produced, second, extracted >>
varsValidator == << arg, verdict >>
varsHeap == << heap, roots, returned >>
varsPreview ==
    << previewProcess, procs, signals, resolvedPlayer, platform, installed,
       lastStart, called >>
varsCatalog == << soundPathCache, files, tasks, looked, atInvalidate >>
varsAcquire == << acqInput, acqAt, effects, acqResult, source, bytes, imported >>
varsEditor == << disk, writes, edAt, chosen, edits >>
varsLater == << varsPreview, varsCatalog, varsAcquire, varsEditor >>
vars ==
    << settings, mappings, first, produced, second, extracted, arg, verdict,
       heap, roots, returned, pc, varsLater >>

(***************************************************************************)
(* Strings                                                                 *)
(***************************************************************************)
Ascii ==
    << " ", "!", "\"", "#", "$", "%", "&", "'", "(", ")", "*", "+", ",", "-", ".", "/",
      "0", "1", "2", "3", "4", "5", "6", "7", "8", "9", ":", ";", "<", "=", ">", "?", "@",
      "A", "B", "C", "D", "E", "F", "G", "H", "I", "J", "K", "L", "M", "N", "O", "P", "Q",
      "R", "S", "T", "U", "V", "W", "X", "Y", "Z", "[", "\\", "]", "^", "_", "U+0060", "a",
      "b", "c", "d", "e", "f", "g", "h", "i", "j", "k", "l", "m", "n", "o", "p", "q", "r",
      "s", "t", "u", "v", "w", "x", "y", "z", "{", "|", "}", "~" >>

EvSessionStart ==
    << "S", "e", "s", "s", "i", "o", "n", "S", "t", "a", "r", "t" >>

EvUserPromptSubmit ==
    << "U", "s", "e", "r", "P", "r", "o", "m", "p", "t", "S", "u", "b", "m", "i", "t" >>

EvPreToolUse ==
    << "P", "r", "e", "T", "o", "o", "l", "U", "s", "e" >>

EvPermissionRequest ==
    << "P", "e", "r", "m", "i", "s", "s", "i", "o", "n", "R", "e", "q", "u", "e", "s", "t" >>

EvPostToolUse ==
    << "P", "o", "s", "t", "T", "o", "o", "l", "U", "s", "e" >>

EvPostToolUseFailure ==
    << "P", "o", "s", "t", "T", "o", "o", "l", "U", "s", "e", "F", "a", "i", "l", "u",
      "r", "e" >>

EvNotification ==
    << "N", "o", "t", "i", "f", "i", "c", "a", "t", "i", "o", "n" >>

EvSubagentStart ==
    << "S", "u", "b", "a", "g", "e", "n", "t", "S", "t", "a", "r", "t" >>

EvSubagentStop ==
    << "S", "u", "b", "a", "g", "e", "n", "t", "S", "t", "o", "p" >>

EvStop ==
    << "S", "t", "o", "p" >>

EvTeammateIdle ==
    << "T", "e", "a", "m", "m", "a", "t", "e", "I", "d", "l", "e" >>

EvTaskCompleted ==
    << "T", "a", "s", "k", "C", "o", "m", "p", "l", "e", "t", "e", "d" >>

EvPreCompact ==
    << "P", "r", "e", "C", "o", "m", "p", "a", "c", "t" >>

EvSessionEnd ==
    << "S", "e", "s", "s", "i", "o", "n", "E", "n", "d" >>

HOOK_EVENTS ==
    << EvSessionStart,
       EvUserPromptSubmit,
       EvPreToolUse,
       EvPermissionRequest,
       EvPostToolUse,
       EvPostToolUseFailure,
       EvNotification,
       EvSubagentStart,
       EvSubagentStop,
       EvStop,
       EvTeammateIdle,
       EvTaskCompleted,
       EvPreCompact,
       EvSessionEnd >>

MANAGED_TOKEN ==
    << "-", "-", "m", "a", "n", "a", "g", "e", "d", "-", "b", "y", " ", "c", "l", "a",
      "u", "d", "e", "-", "s", "o", "u", "n", "d" >>

RunnerPrefix ==
    << "n", "p", "x", " ", "-", "-", "y", "e", "s", " ", "c", "l", "a", "u", "d", "e",
      "-", "s", "o", "u", "n", "d", "@", "l", "a", "t", "e", "s", "t", " ", "p", "l", "a",
      "y", " ", "-", "-", "e", "v", "e", "n", "t", " " >>

SoundFlag ==
    << " ", "-", "-", "s", "o", "u", "n", "d", " " >>

SoundFlagPattern ==
    << "-", "-", "s", "o", "u", "n", "d" >>

K_hooks ==
    << "h", "o", "o", "k", "s" >>

K_matcher ==
    << "m", "a", "t", "c", "h", "e", "r" >>

K_type ==
    << "t", "y", "p", "e" >>

K_command ==
    << "c", "o", "m", "m", "a", "n", "d" >>

K_async ==
    << "a", "s", "y", "n", "c" >>

K_timeout ==
    << "t", "i", "m", "e", "o", "u", "t" >>

K_model ==
    << "m", "o", "d", "e", "l" >>

K_env ==
    << "e", "n", "v" >>

CommandType ==
    << "c", "o", "m", "m", "a", "n", "d" >>


\* UTF-16 code unit of a character.  The model's alphabet is ASCII, Ascii[i]
\* being the character of code 31 + i; the grave accent, which a TLA+ string
\* cannot hold, is written "U+0060".
CharCode(c) ==
    IF c = "\t" THEN 9
    ELSE IF c = "\n" THEN 10
    ELSE 31 + (CHOOSE i \in 1..Len(Ascii) : Ascii[i] = c)

\* A regular-expression class range such as a-z.
InRange(c, lo, hi) == CharCode(lo) <= CharCode(c) /\ CharCode(c) <= CharCode(hi)

\* \s of a JavaScript regular expression, within the model's alphabet.
IsWhitespace(c) == c \in {" ", "\t", "\n"}

\* p occurs in s starting at index i.
MatchesAt(s, p, i) ==
    /\ i >= 1
    /\ i + Len(p) - 1 <= Len(s)
    /\ \A k \in 1..Len(p) : s[i + k - 1] = p[k]

\* String.prototype.includes
Includes(s, p) == \E i \in 1..(Len(s) - Len(p) + 1) : MatchesAt(s, p, i)

\* Index one past the longest run of characters from index i on that satisfy
\* (or, with ws = FALSE, do not satisfy) IsWhitespace.
RECURSIVE RunEnd(_, _, _)
RunEnd(s, i, ws) ==
    IF i <= Len(s) /\ (IsWhitespace(s[i]) <=> ws) THEN RunEnd(s, i + 1, ws) ELSE i

Repeat(c, n) == [i \in 1..n |-> c]

(***************************************************************************)
(* JSON values                                                             *)
(***************************************************************************)

Undefined == [t |-> "undefined"]
Null == [t |-> "null"]
Str(s) == [t |-> "string", s |-> s]
Num(n) == [t |-> "number", n |-> n]
Bool(b) == [t |-> "boolean", b |-> b]
Arr(a) == [t |-> "array", a |-> a]
Obj(o) == [t |-> "object", o |-> o]

\* The properties of {}.
NoProps == [k \in {} |-> Undefined]

IsString(v) == v.t = "string"
IsArray(v) == v.t = "array"
IsObject(v) == v.t = "object"

\* typeof v === 'object'
TypeofObject(v) == v.t \in {"object", "array", "null"}

\* ToBoolean
Truthy(v) ==
    CASE v.t \in {"undefined", "null"} -> FALSE
      [] v.t = "string" -> Len(v.s) > 0
      [] v.t = "number" -> v.n # 0
      [] v.t = "boolean" -> v.b
      [] OTHER -> TRUE

\* v?.k for a JSON value v and a property name k that is no array index.
Get(v, k) == IF IsObject(v) /\ k \in DOMAIN v.o THEN v.o[k] ELSE Undefined

\* The own properties { ...v } copies: those of an object, none of null,
\* undefined, a number or a boolean.
Spread(v) == IF IsObject(v) THEN v.o ELSE NoProps

SetKey(o, k, v) == [x \in DOMAIN o \cup {k} |-> IF x = k THEN v ELSE o[x]]
DeleteKey(o, k) == [x \in DOMAIN o \ {k} |-> o[x]]

Return(v) == [ok |-> TRUE, value |-> v]
Throw(msg, v) == [ok |-> FALSE, error |-> msg, offending |-> v]

InSeq(x, s) == \E i \in 1..Len(s) : s[i] = x

(***************************************************************************)
(* Identifier validation and the managed command (hooks.js 47-81)          *)
(***************************************************************************)

MaxSoundIdLength == 120

\* timeout: 5 of the handler applyMappingsToSettings builds, in seconds.
HandlerTimeout == 5

\* The class written [a-zA-z0-9/_-], whose second range runs on to z.
SAFE_SOUND_ID_Class_Az(c) ==
    \/ InRange(c, "a", "z")
    \/ InRange(c, "A", "z")
    \/ InRange(c, "0", "9")
    \/ c \in {"/", "_", "-"}

\* /^[a-zA-Z0-9/_-]+$/.test(s)
SAFE_SOUND_ID_Class(c) ==
    \/ InRange(c, "a", "z")
    \/ InRange(c, "A", "Z")
    \/ InRange(c, "0", "9")
    \/ c \in {"/", "_", "-"}

SAFE_SOUND_ID(s) == Len(s) >= 1 /\ \A i \in 1..Len(s) : SAFE_SOUND_ID_Class(s[i])

validateEventName(eventName) ==
    IF ~IsString(eventName) \/ ~InSeq(eventName.s, HOOK_EVENTS)
    THEN Throw("Invalid event name", eventName)
    ELSE Return(Undefined)

\* validateSoundId without the test of SAFE_SOUND_ID.
validateSoundId_TypeOnly(soundId) ==
    IF ~IsString(soundId) \/ Len(soundId.s) > MaxSoundIdLength
    THEN Throw("Invalid sound id", soundId)
    ELSE Return(Undefined)

validateSoundId(soundId) ==
    IF \/ ~IsString(soundId)
       \/ ~SAFE_SOUND_ID(soundId.s)
       \/ Len(soundId.s) > MaxSoundIdLength
    THEN Throw("Invalid sound id", soundId)
    ELSE Return(Undefined)

isManagedCommand(command) == IsString(command) /\ Includes(command.s, MANAGED_TOKEN)

\* The template with --sound=<id> in place of --sound <id>.
CommandTemplate_EqualsSign(eventName, soundId) ==
    RunnerPrefix \o eventName \o << " " >> \o SoundFlagPattern \o << "=" >>
        \o soundId \o << " " >> \o MANAGED_TOKEN

\* The template literal of buildManagedCommand.
CommandTemplate(eventName, soundId) ==
    RunnerPrefix \o eventName \o SoundFlag \o soundId \o << " " >> \o MANAGED_TOKEN

buildManagedCommand(eventName, soundId) ==
    LET e == validateEventName(eventName)
        s == validateSoundId(soundId)
    IN  IF ~e.ok THEN e
        ELSE IF ~s.ok THEN s
        ELSE Return(Str(CommandTemplate(eventName.s, soundId.s)))

\* /--sound\s+([^\s]+)/.exec(s): the leftmost index at which --sound is
\* followed by whitespace and then by a character that is not whitespace;
\* 0 when there is none.
SoundFlagMatch(s) ==
    LET ok(i) ==
            /\ MatchesAt(s, SoundFlagPattern, i)
            /\ i + Len(SoundFlagPattern) <= Len(s)
            /\ IsWhitespace(s[i + Len(SoundFlagPattern)])
            /\ RunEnd(s, i + Len(SoundFlagPattern), TRUE) <= Len(s)
        hits == {i \in 1..Len(s) : ok(i)}
    IN  IF hits = {} THEN 0 ELSE CHOOSE i \in hits : \A j \in hits : i <= j

\* extractManagedSoundId, for a command that is a string, null or undefined.
extractManagedSoundId(command) ==
    LET s == IF IsString(command) THEN command.s ELSE << >>
        i == SoundFlagMatch(s)
        from == RunEnd(s, i + Len(SoundFlagPattern), TRUE)
    IN  IF i = 0 THEN Null
        ELSE Str(SubSeq(s, from, RunEnd(s, from, FALSE) - 1))

(***************************************************************************)
(* The settings reconciler (hooks.js 83-157)                               *)
(***************************************************************************)

\* The sound ids the scan of getExistingManagedMappings assigns to one
\* event, in scan order: group by group, handler by handler.
RECURSIVE ManagedIdsOfHandlers(_, _)
ManagedIdsOfHandlers(handlers, i) ==
    IF i > Len(handlers) THEN << >>
    ELSE LET cmd == Get(handlers[i], K_command)
             soundId == extractManagedSoundId(cmd)
             keep == /\ isManagedCommand(cmd)
                     /\ Truthy(soundId)
                     /\ SAFE_SOUND_ID(soundId.s)
                     /\ Len(soundId.s) <= MaxSoundIdLength
         IN  (IF keep THEN << soundId >> ELSE << >>)
                 \o ManagedIdsOfHandlers(handlers, i + 1)

RECURSIVE ManagedIdsOfGroups(_, _)
ManagedIdsOfGroups(groups, i) ==
    IF i > Len(groups) THEN << >>
    ELSE LET handlers == Get(groups[i], K_hooks)
         IN  (IF IsArray(handlers) THEN ManagedIdsOfHandlers(handlers.a, 1) ELSE << >>)
                 \o ManagedIdsOfGroups(groups, i + 1)

\* getExistingManagedMappings that keeps the first id found for an event.
getExistingManagedMappings_FirstWins(doc) ==
    LET hooks == Get(doc, K_hooks)
    IN  IF ~Truthy(hooks) \/ ~TypeofObject(hooks) \/ ~IsObject(hooks) THEN Obj(NoProps)
        ELSE LET scanned == {e \in DOMAIN hooks.o :
                                IsArray(hooks.o[e]) /\ InSeq(e, HOOK_EVENTS)}
                 ids(e) == ManagedIdsOfGroups(hooks.o[e].a, 1)
                 assigned == {e \in scanned : Len(ids(e)) > 0}
             IN  Obj([e \in assigned |-> ids(e)[1]])

\* getExistingManagedMappings.  Every assignment map[eventName] = soundId
\* overwrites the one before.  The keys of an array are its indices, none of
\* them an event name.
getExistingManagedMappings(doc) ==
    LET hooks == Get(doc, K_hooks)
    IN  IF ~Truthy(hooks) \/ ~TypeofObject(hooks) \/ ~IsObject(hooks) THEN Obj(NoProps)
        ELSE LET scanned == {e \in DOMAIN hooks.o :
                                IsArray(hooks.o[e]) /\ InSeq(e, HOOK_EVENTS)}
                 ids(e) == ManagedIdsOfGroups(hooks.o[e].a, 1)
                 assigned == {e \in scanned : Len(ids(e)) > 0}
             IN  Obj([e \in assigned |-> ids(e)[Len(ids(e))]])

\* handlers.filter((h) => !isManagedCommand(h?.command))
KeptHandlers(handlers) ==
    SelectSeq(handlers, LAMBDA h : ~isManagedCommand(Get(h, K_command)))

\* The inner loop of the first phase: newGroups of one event.
RECURSIVE StripGroups(_, _)
StripGroups(groups, i) ==
    IF i > Len(groups) THEN << >>
    ELSE LET g == groups[i]
             handlers == IF IsArray(Get(g, K_hooks)) THEN Get(g, K_hooks).a ELSE << >>
             kept == KeptHandlers(handlers)
         IN  (IF Len(kept) > 0
              THEN << Obj(SetKey(Spread(g), K_hooks, Arr(kept))) >>
              ELSE << >>)
                 \o StripGroups(groups, i + 1)

\* The first phase left out.
StripManaged_KeepAll(hooks) == hooks

\* First phase: remove all existing managed handlers from out.hooks.
StripManaged(hooks) ==
    LET newGroups(e) == StripGroups(hooks[e].a, 1)
        remaining == {e \in DOMAIN hooks :
                         ~IsArray(hooks[e]) \/ Len(newGroups(e)) > 0}
    IN  [e \in remaining |->
            IF IsArray(hooks[e]) THEN Arr(newGroups(e)) ELSE hooks[e]]

\* The handler and the group the second phase builds for one mapping.
ManagedHandler(command) ==
    Obj((K_type :> Str(CommandType))
        @@ (K_command :> command)
        @@ (K_async :> Bool(TRUE))
        @@ (K_timeout :> Num(HandlerTimeout)))

ManagedGroup(command) ==
    Obj((K_matcher :> Str(<< "*" >>))
        @@ (K_hooks :> Arr(<< ManagedHandler(command) >>)))

\* The second phase with out.hooks[eventName] = [group]: the groups the
\* event had are clobbered.
RECURSIVE ApplyEntries_Clobber(_, _, _, _)
ApplyEntries_Clobber(hooks, commands, entries, i) ==
    IF i > Len(entries) THEN [result |-> Return(hooks), commands |-> commands]
    ELSE LET eventName == entries[i][1]
             soundId == entries[i][2]
             built == buildManagedCommand(Str(eventName), soundId)
         IN  IF ~Truthy(soundId) THEN ApplyEntries_Clobber(hooks, commands, entries, i + 1)
             ELSE IF ~built.ok THEN [result |-> built, commands |-> commands]
             ELSE ApplyEntries_Clobber(
                      SetKey(hooks, eventName, Arr(<< ManagedGroup(built.value) >>)),
                      commands \o << built.value.s >>,
                      entries, i + 1)

\* The second phase with [group, ...existingGroups]: the new group first.
RECURSIVE ApplyEntries_Prepend(_, _, _, _)
ApplyEntries_Prepend(hooks, commands, entries, i) ==
    IF i > Len(entries) THEN [result |-> Return(hooks), commands |-> commands]
    ELSE LET eventName == entries[i][1]
             soundId == entries[i][2]
             built == buildManagedCommand(Str(eventName), soundId)
             existingGroups ==
                 IF eventName \in DOMAIN hooks /\ IsArray(hooks[eventName])
                 THEN hooks[eventName].a
                 ELSE << >>
         IN  IF ~Truthy(soundId) THEN ApplyEntries_Prepend(hooks, commands, entries, i + 1)
             ELSE IF ~built.ok THEN [result |-> built, commands |-> commands]
             ELSE ApplyEntries_Prepend(
                      SetKey(hooks, eventName,
                             Arr(<< ManagedGroup(built.value) >> \o existingGroups)),
                      commands \o << built.value.s >>,
                      entries, i + 1)

\* Second phase: the loop over Object.entries(mappings) from entry i on.
\* result is the hooks object, or what buildManagedCommand threw; commands
\* lists the command strings buildManagedCommand returned on the way.
RECURSIVE ApplyEntries(_, _, _, _)
ApplyEntries(hooks, commands, entries, i) ==
    IF i > Len(entries) THEN [result |-> Return(hooks), commands |-> commands]
    ELSE LET eventName == entries[i][1]
             soundId == entries[i][2]
             built == buildManagedCommand(Str(eventName), soundId)
             existingGroups ==
                 IF eventName \in DOMAIN hooks /\ IsArray(hooks[eventName])
                 THEN hooks[eventName].a
                 ELSE << >>
         IN  IF ~Truthy(soundId) THEN ApplyEntries(hooks, commands, entries, i + 1)
             ELSE IF ~built.ok THEN [result |-> built, commands |-> commands]
             ELSE ApplyEntries(
                      SetKey(hooks, eventName,
                             Arr(existingGroups \o << ManagedGroup(built.value) >>)),
                      commands \o << built.value.s >>,
                      entries, i + 1)

\* out.hooks after both phases, with the commands built.
ReconcileHooks(doc, entries) ==
    LET out == Spread(IF Truthy(doc) THEN doc ELSE Obj(NoProps))
        outHooks == IF K_hooks \in DOMAIN out THEN out[K_hooks] ELSE Undefined
        hooks == Spread(IF Truthy(outHooks) THEN outHooks ELSE Obj(NoProps))
    IN  ApplyEntries(StripManaged(hooks), << >>, entries, 1)

\* applyMappingsToSettings with out = {}: the other top-level keys are lost.
applyMappingsToSettings_FreshOut(doc, entries) ==
    LET applied == ReconcileHooks(doc, entries).result
    IN  IF ~applied.ok THEN applied
        ELSE IF DOMAIN applied.value = {} THEN Return(Obj(NoProps))
        ELSE Return(Obj(K_hooks :> Obj(applied.value)))

\* applyMappingsToSettings without the final clean-up of an empty hooks.
applyMappingsToSettings_KeepEmptyHooks(doc, entries) ==
    LET out == Spread(IF Truthy(doc) THEN doc ELSE Obj(NoProps))
        applied == ReconcileHooks(doc, entries).result
    IN  IF ~applied.ok THEN applied
        ELSE Return(Obj(SetKey(out, K_hooks, Obj(applied.value))))

applyMappingsToSettings(doc, entries) ==
    LET out == Spread(IF Truthy(doc) THEN doc ELSE Obj(NoProps))
        applied == ReconcileHooks(doc, entries).result
    IN  IF ~applied.ok THEN applied
        ELSE IF DOMAIN applied.value = {}
        THEN Return(Obj(DeleteKey(out, K_hooks)))
        ELSE Return(Obj(SetKey(out, K_hooks, Obj(applied.value))))

(***************************************************************************)
(* Inputs                                                                  *)
(***************************************************************************)

Ring1 ==
    << "r", "i", "n", "g", "1" >>

Ring2 ==
    << "r", "i", "n", "g", "2" >>

\* A sound id that passes validation and reads like the flag before it.
FlagLikeId ==
    << "-", "-", "s", "o", "u", "n", "d" >>

CommonPop ==
    << "c", "o", "m", "m", "o", "n", "/", "p", "o", "p" >>

Injection ==
    << "a", ";", "r", "m", " ", "-", "r", "f", " ", "/" >>

NotARealEvent ==
    << "N", "o", "t", "A", "R", "e", "a", "l", "E", "v", "e", "n", "t" >>

LowerStop ==
    << "s", "t", "o", "p" >>

ForeignCommand ==
    << "s", "a", "y", " ", "h", "i" >>

HandEditedCommand ==
    << "b", "e", "e", "p", " ", "-", "-", "m", "a", "n", "a", "g", "e", "d", "-", "b",
      "y", " ", "c", "l", "a", "u", "d", "e", "-", "s", "o", "u", "n", "d" >>

BashMatcher ==
    << "B", "a", "s", "h" >>

PromptType ==
    << "p", "r", "o", "m", "p", "t" >>

ModelName ==
    << "o", "p", "u", "s" >>

\* The characters [A-Za-z0-9/_-] of a sound identifier.
AllowedSoundIdChars ==
    { "a", "b", "c", "d", "e", "f", "g", "h", "i", "j", "k", "l", "m", "n", "o", "p",
        "q", "r", "s", "t", "u", "v", "w", "x", "y", "z", "A", "B", "C", "D", "E", "F",
        "G", "H", "I", "J", "K", "L", "M", "N", "O", "P", "Q", "R", "S", "T", "U", "V",
        "W", "X", "Y", "Z", "0", "1", "2", "3", "4", "5", "6", "7", "8", "9", "/", "_",
        "-" }

\* Characters on both sides of every boundary of the class [a-zA-Z0-9/_-].
SampleChars ==
    { "a", "z", "A", "Z", "0", "9", "/", "_", "-",
      ";", " ", "\n", ".", ",", ":", "@", "[", "U+0060", "{" }

MaxShortLen == 2

ShortStrings == UNION {[1..n -> SampleChars] : n \in 0..MaxShortLen}

SoundIdArgs ==
    {Str(s) : s \in ShortStrings}
        \cup {Str(Ring1), Str(CommonPop), Str(Injection)}
        \cup {Str(Repeat("a", n)) : n \in (MaxSoundIdLength - 1)..(MaxSoundIdLength + 1)}
        \cup {Str(Repeat("a", MaxSoundIdLength - 1) \o << c >>) : c \in {"-", ";"}}
        \cup {Undefined, Null, Num(5), Arr(<< Str(Ring1) >>)}

EventNameArgs ==
    {Str(HOOK_EVENTS[i]) : i \in 1..Len(HOOK_EVENTS)}
        \cup {Str(NotARealEvent), Str(LowerStop), Str(EvStop \o << " " >>), Str(<< >>)}
        \cup {Undefined, Null, Arr(<< Str(EvStop) >>)}

NotRun == [ok |-> FALSE, error |-> "not run"]

ReconcilerIdle ==
    /\ settings = Undefined
    /\ mappings = << >>
    /\ first = NotRun
    /\ produced = << >>
    /\ second = NotRun
    /\ extracted = NotRun

ValidatorIdle ==
    /\ arg = Undefined
    /\ verdict = NotRun

HeapIdle ==
    /\ heap = << >>
    /\ roots = [settings |-> Undefined, mappings |-> Undefined]
    /\ returned = NotRun

PreviewIdle ==
    /\ previewProcess = 0
    /\ procs = << >>
    /\ signals = << >>
    /\ resolvedPlayer = Null
    /\ platform = "linux"
    /\ installed = {}
    /\ lastStart = 0
    /\ called = NotRun

NoFiles ==
    [manifest |-> Null, common |-> Null, game |-> Null, custom |-> Null,
     order |-> Null]

CatalogUnused ==
    /\ files = NoFiles
    /\ tasks = << >>
    /\ looked = NotRun
    /\ atInvalidate = [called |-> FALSE, custom |-> {}]

CatalogIdle ==
    /\ soundPathCache = Null
    /\ CatalogUnused

NoSource == [kind |-> "missing"]
NoBytes == [name \in {} |-> ""]

AcquireIdle ==
    /\ acqInput = << >>
    /\ acqAt = "idle"
    /\ effects = << >>
    /\ acqResult = NotRun
    /\ imported = << >>
    /\ source = NoSource
    /\ bytes = NoBytes

NoFile == [kind |-> "absent", doc |-> [t |-> "undefined"]]

EditorIdle ==
    /\ disk = NoFile
    /\ writes = << >>
    /\ edAt = "idle"
    /\ chosen = << >>
    /\ edits = 0

LaterIdle == PreviewIdle /\ CatalogIdle /\ AcquireIdle /\ EditorIdle

(***************************************************************************)
(* The validators, each called once on an argument                         *)
(***************************************************************************)

InitValidate ==
    /\ \/ pc = "validateSoundId" /\ arg \in SoundIdArgs
       \/ pc = "validateEventName" /\ arg \in EventNameArgs
    /\ verdict = NotRun
    /\ ReconcilerIdle
    /\ HeapIdle
    /\ LaterIdle

CallValidateSoundId ==
    /\ pc = "validateSoundId"
    /\ verdict' = validateSoundId(arg)
    /\ pc' = "validateSoundId:done"
    /\ UNCHANGED << arg, varsReconciler, varsHeap, varsLater >>

CallValidateEventName ==
    /\ pc = "validateEventName"
    /\ verdict' = validateEventName(arg)
    /\ pc' = "validateEventName:done"
    /\ UNCHANGED << arg, varsReconciler, varsHeap, varsLater >>

NextValidate == CallValidateSoundId \/ CallValidateEventName

SpecValidate == InitValidate /\ [][NextValidate]_vars

\* C10: validateSoundId returns exactly for strings of 1 to 120 characters
\* drawn from [A-Za-z0-9/_-] and validateEventName exactly for the 14 names
\* of HOOK_EVENTS; on every other argument they throw.
C10_ValidatorsAcceptExactly ==
    /\ Len(HOOK_EVENTS) = 14
    /\ pc = "validateSoundId:done" =>
           /\ verdict.ok <=>
                  /\ IsString(arg)
                  /\ Len(arg.s) >= 1
                  /\ Len(arg.s) <= 120
                  /\ \A i \in 1..Len(arg.s) : arg.s[i] \in AllowedSoundIdChars
           /\ ~verdict.ok => verdict = Throw("Invalid sound id", arg)
           /\ arg = Str(Ring1) => verdict.ok
           /\ arg = Str(Injection) => ~verdict.ok
    /\ pc = "validateEventName:done" =>
           /\ verdict.ok <=>
                  /\ IsString(arg)
                  /\ \E i \in 1..14 : HOOK_EVENTS[i] = arg.s
           /\ ~verdict.ok => verdict = Throw("Invalid event name", arg)
           /\ arg = Str(NotARealEvent) => ~verdict.ok

C10_Witness ==
    /\ pc = "validateSoundId:done"
    /\ arg = Str(Injection)
    /\ verdict = Throw("Invalid sound id", Str(Injection))

(***************************************************************************)
(* Settings documents and mappings given to the reconciler                 *)
(***************************************************************************)

MaxGroups == 2
MaxHandlers == 2

SeqsUpTo(S, n) == UNION {[1..k -> S] : k \in 0..n}

Handler(command) == Obj((K_type :> Str(CommandType)) @@ (K_command :> Str(command)))

\* Handlers found under an event: a user's own, one this tool wrote earlier,
\* a hand-edited one that carries the marker but no --sound flag, and one
\* that has no command.
HandlerUniverse(e) ==
    { Handler(ForeignCommand),
      ManagedHandler(Str(CommandTemplate(e, Ring2))),
      Handler(HandEditedCommand),
      Obj(K_type :> Str(PromptType)) }

GroupOf(handlers) ==
    Obj((K_matcher :> Str(BashMatcher)) @@ (K_hooks :> Arr(handlers)))

\* A group without a hooks key.
BareGroup == Obj(K_matcher :> Str(BashMatcher))

\* Groups with a handler list, possibly empty.
GroupUniverse(e) == {GroupOf(hs) : hs \in SeqsUpTo(HandlerUniverse(e), MaxHandlers)}

RECURSIVE HandlerCount(_, _)
HandlerCount(groups, i) ==
    IF i > Len(groups) THEN 0
    ELSE (IF IsArray(Get(groups[i], K_hooks)) THEN Len(Get(groups[i], K_hooks).a) ELSE 0)
             + HandlerCount(groups, i + 1)

\* The value of hooks[e]: at most MaxGroups groups that hold at most
\* MaxHandlers handlers together, or something that is no array.
EventValues(e) ==
    {Arr(gs) : gs \in {x \in SeqsUpTo(GroupUniverse(e), MaxGroups) :
                          HandlerCount(x, 1) <= MaxHandlers}}
        \cup {Str(ForeignCommand)}

\* What hooks holds for EvStop, the event the mappings below are about.
StopParts == {NoProps} \cup {EvStop :> v : v \in EventValues(EvStop)}

FewStopParts ==
    { NoProps,
      EvStop :> Str(ForeignCommand),
      EvStop :> Arr(<< BareGroup,
                       GroupOf(<< Handler(ForeignCommand),
                                  ManagedHandler(Str(CommandTemplate(EvStop, Ring2))) >>) >>) }

\* What hooks holds besides: nothing; managed content under a key that is
\* no event name; a second event with a group without a hooks key before a
\* group with a user's handler next to a managed one, and a key whose value
\* is no array.
RestParts ==
    { NoProps,
      NotARealEvent :> Arr(<< GroupOf(<< Handler(HandEditedCommand) >>) >>),
      (EvSessionEnd :> Arr(<< BareGroup,
                              GroupOf(<< Handler(ForeignCommand),
                                         ManagedHandler(Str(CommandTemplate(EvSessionEnd, Ring2))) >>) >>))
          @@ (NotARealEvent :> Num(5)) }

\* The top-level keys other than hooks.
OtherKeys ==
    { NoProps,
      (K_model :> Str(ModelName)) @@ (K_env :> Obj(K_model :> Str(ModelName))) }

DocsOver(stopParts) ==
    {Obj(other @@ (K_hooks :> Obj(stop @@ rest))) :
        other \in OtherKeys, stop \in stopParts, rest \in RestParts}
        \cup {Obj(other) : other \in OtherKeys}
        \cup {Obj(other @@ (K_hooks :> Null)) : other \in OtherKeys}
        \cup {Null, Undefined}

SettingsDocs == DocsOver(StopParts)
FewSettingsDocs == DocsOver(FewStopParts)

\* Object.entries(mappings) of mappings that pass validation.
ValidMappingEntries ==
    { << >>,
      << << EvStop, Str(Ring1) >> >>,
      << << EvStop, Str(<< >>) >>, << NotARealEvent, Null >> >>,
      << << EvSessionEnd, Str(FlagLikeId) >>, << EvStop, Str(CommonPop) >> >> }

\* Object.entries(mappings) of mappings with an entry that does not.
InvalidMappingEntries ==
    { << << EvStop, Str(Injection) >> >>,
      << << EvStop, Num(5) >> >>,
      << << EvStop, Str(Repeat("a", MaxSoundIdLength + 1)) >> >>,
      << << NotARealEvent, Str(Ring1) >> >>,
      << << EvStop, Str(Ring1) >>, << LowerStop, Str(Ring1) >> >> }

(***************************************************************************)
(* The reconciler, applied to a document and a mapping                     *)
(***************************************************************************)

Init ==
    /\ \/ settings \in SettingsDocs /\ mappings \in ValidMappingEntries
       \/ settings \in FewSettingsDocs /\ mappings \in InvalidMappingEntries
    /\ first = NotRun
    /\ produced = << >>
    /\ second = NotRun
    /\ extracted = NotRun
    /\ pc = "start"
    /\ ValidatorIdle
    /\ HeapIdle
    /\ LaterIdle

\* settings = applyMappingsToSettings(settings, mappings)
Reconcile ==
    /\ pc = "start"
    /\ first' = applyMappingsToSettings(settings, mappings)
    /\ produced' = ReconcileHooks(settings, mappings).commands
    /\ pc' = IF first'.ok THEN "reconciled" ELSE "threw"
    /\ UNCHANGED << settings, mappings, second, extracted, varsValidator, varsHeap,
                    varsLater >>

\* The same mapping applied to the document returned.
ReconcileAgain ==
    /\ pc = "reconciled"
    /\ second' = applyMappingsToSettings(first.value, mappings)
    /\ pc' = "reconciledAgain"
    /\ UNCHANGED << settings, mappings, first, produced, extracted, varsValidator,
                    varsHeap, varsLater >>

\* getExistingManagedMappings on the document returned.
Extract ==
    /\ pc = "reconciledAgain"
    /\ extracted' = Return(getExistingManagedMappings(first.value))
    /\ pc' = "extracted"
    /\ UNCHANGED << settings, mappings, first, produced, second, varsValidator,
                    varsHeap, varsLater >>

Next == Reconcile \/ ReconcileAgain \/ Extract

Spec == Init /\ [][Next]_vars

(***************************************************************************)
(* Vocabulary of the properties                                            *)
(***************************************************************************)

\* The top-level keys of a document, and the keys of its hooks object.
TopKeys(doc) == IF IsObject(doc) THEN DOMAIN doc.o ELSE {}
EventKeys(doc) == IF IsObject(Get(doc, K_hooks)) THEN DOMAIN Get(doc, K_hooks).o ELSE {}

\* The groups under hooks[e] and the handlers of a group; none where the
\* document holds no list there.
GroupsUnder(doc, e) ==
    LET v == Get(Get(doc, K_hooks), e) IN IF IsArray(v) THEN v.a ELSE << >>
HandlersOf(g) == LET h == Get(g, K_hooks) IN IF IsArray(h) THEN h.a ELSE << >>

\* A handler is managed iff its command contains the ownership marker.
IsManagedHandler(h) == isManagedCommand(Get(h, K_command))
IsForeignHandler(h) == ~IsManagedHandler(h)

\* The events the mapping gives a non-empty sound, and that sound.
MappedEvents == {mappings[i][1] : i \in {j \in 1..Len(mappings) : Truthy(mappings[j][2])}}
SoundOf(e) == mappings[CHOOSE i \in 1..Len(mappings) : mappings[i][1] = e][2]

\* What a list of groups holds that is not managed: for each group with a
\* foreign handler, in order, its other fields and its foreign handlers.
RECURSIVE ForeignView(_, _)
ForeignView(groups, i) ==
    IF i > Len(groups) THEN << >>
    ELSE LET foreign == SelectSeq(HandlersOf(groups[i]), IsForeignHandler)
         IN  (IF Len(foreign) > 0
              THEN << [fields |-> DeleteKey(Spread(groups[i]), K_hooks),
                       handlers |-> foreign] >>
              ELSE << >>)
                 \o ForeignView(groups, i + 1)

RECURSIVE ManagedCount(_, _)
ManagedCount(groups, i) ==
    IF i > Len(groups) THEN 0
    ELSE Len(SelectSeq(HandlersOf(groups[i]), IsManagedHandler))
             + ManagedCount(groups, i + 1)

\* a is b with some elements left out.
RECURSIVE IsSubsequence(_, _)
IsSubsequence(a, b) ==
    IF Len(a) = 0 THEN TRUE
    ELSE IF Len(b) = 0 THEN FALSE
    ELSE IF Head(a) = Head(b) THEN IsSubsequence(Tail(a), Tail(b))
    ELSE IsSubsequence(a, Tail(b))

\* The command string of section 6 of the specification.
ExpectedHead ==
    << "n", "p", "x", " ", "-", "-", "y", "e", "s", " ", "c", "l", "a", "u", "d", "e",
      "-", "s", "o", "u", "n", "d", "@", "l", "a", "t", "e", "s", "t", " ", "p", "l", "a",
      "y", " ", "-", "-", "e", "v", "e", "n", "t", " " >>

ExpectedSoundFlag ==
    << " ", "-", "-", "s", "o", "u", "n", "d", " " >>

ExpectedTail ==
    << " ", "-", "-", "m", "a", "n", "a", "g", "e", "d", "-", "b", "y", " ", "c", "l",
      "a", "u", "d", "e", "-", "s", "o", "u", "n", "d" >>

ExpectedCommand(e, soundId) ==
    ExpectedHead \o e \o ExpectedSoundFlag \o soundId \o ExpectedTail

\* A pair the identifier rules accept.
IsValidPair(e, v) ==
    /\ \E i \in 1..14 : HOOK_EVENTS[i] = e
    /\ IsString(v)
    /\ Len(v.s) >= 1
    /\ Len(v.s) <= 120
    /\ \A i \in 1..Len(v.s) : v.s[i] \in AllowedSoundIdChars

Reconciled == pc \in {"reconciled", "reconciledAgain", "extracted"}

\* Documents the witnesses name.
OldManagedStop == ManagedHandler(Str(CommandTemplate(EvStop, Ring2)))
StopRing1 == << << EvStop, Str(Ring1) >> >>

(***************************************************************************)
(* Properties of the reconciler                                            *)
(***************************************************************************)

\* C1: reconcile is idempotent: applying the same mapping to the document
\* reconcile returned returns a document deep-equal to it.
C1_Idempotent ==
    pc \in {"reconciledAgain", "extracted"} => second.ok /\ second.value = first.value

C1_Witness ==
    /\ pc = "reconciledAgain"
    /\ mappings = StopRing1
    /\ GroupsUnder(settings, EvStop)
           = << GroupOf(<< OldManagedStop, Handler(ForeignCommand) >>) >>
    /\ second.value = first.value
    /\ first.value # settings

\* C2: for every event the mapping gives a non-empty sound, the foreign
\* handlers the input holds under it are in the output, unchanged, each in
\* its own group with the group's other fields, in the same order.
C2_ForeignHandlersKept ==
    Reconciled =>
        \A e \in MappedEvents :
            ForeignView(GroupsUnder(first.value, e), 1)
                = ForeignView(GroupsUnder(settings, e), 1)

C2_Witness ==
    /\ pc = "reconciled"
    /\ mappings = StopRing1
    /\ GroupsUnder(settings, EvStop)
           = << GroupOf(<< Handler(ForeignCommand), OldManagedStop >>) >>
    /\ GroupsUnder(first.value, EvStop)
           = << GroupOf(<< Handler(ForeignCommand) >>),
                ManagedGroup(Str(ExpectedCommand(EvStop, Ring1))) >>

\* C3: for every key of hooks the mapping gives no sound, the key stays and
\* every group under it that holds no managed handler is in the output,
\* unchanged and in the same order, whatever its handler list is.
C3_UnmappedGroupsKept ==
    Reconciled =>
        \A e \in EventKeys(settings) \ MappedEvents :
            /\ e \in EventKeys(first.value)
            /\ IsSubsequence(
                   SelectSeq(GroupsUnder(settings, e),
                             LAMBDA g : ManagedCount(<< g >>, 1) = 0),
                   GroupsUnder(first.value, e))

\* C4: every top-level key other than hooks is in the output with the value
\* it had, and the output has no key the input lacks, hooks excepted.
C4_TopLevelKeysKept ==
    Reconciled =>
        /\ IsObject(first.value)
        /\ \A k \in TopKeys(settings) \ {K_hooks} :
               k \in TopKeys(first.value) /\ first.value.o[k] = settings.o[k]
        /\ TopKeys(first.value) \subseteq TopKeys(settings) \cup {K_hooks}

C4_Witness ==
    /\ pc = "reconciled"
    /\ TopKeys(settings) = {K_model, K_env}
    /\ TopKeys(first.value) = {K_model, K_env, K_hooks}
    /\ first.value.o[K_env] = Obj(K_model :> Str(ModelName))

\* C5: the mapping extracted from the document reconcile returned is the
\* mapping given, restricted to its entries with a non-empty sound id.
C5_RoundTrip ==
    pc = "extracted" =>
        extracted.value = Obj([e \in MappedEvents |-> SoundOf(e)])

C5_Witness ==
    /\ pc = "extracted"
    /\ MappedEvents = {EvSessionEnd, EvStop}
    /\ ManagedCount(GroupsUnder(settings, EvStop), 1) = 2
    /\ NotARealEvent \in EventKeys(settings)
    /\ extracted.value
           = Obj((EvSessionEnd :> Str(FlagLikeId)) @@ (EvStop :> Str(CommonPop)))

\* C6: an event the mapping gives no sound and whose groups hold only
\* managed handlers loses its hooks entry; the output has a hooks key
\* exactly when an event key remains, so a document with only managed
\* content reconciled with an empty mapping has no hooks key.
OnlyManaged(doc, e) ==
    /\ IsArray(Get(Get(doc, K_hooks), e))
    /\ \A i \in 1..Len(GroupsUnder(doc, e)) :
           Len(SelectSeq(HandlersOf(GroupsUnder(doc, e)[i]), IsForeignHandler)) = 0

Remains(e) ==
    \/ e \in MappedEvents
    \/ e \in EventKeys(settings) /\ ~OnlyManaged(settings, e)

C6_EmptyMappingCleanup ==
    Reconciled =>
        /\ \A e \in EventKeys(settings) \ MappedEvents :
               OnlyManaged(settings, e) => e \notin EventKeys(first.value)
        /\ K_hooks \in TopKeys(first.value) <=>
               \E e \in EventKeys(settings) \cup MappedEvents : Remains(e)
        /\ K_hooks \in TopKeys(first.value) => EventKeys(first.value) # {}
        /\ (/\ MappedEvents = {}
            /\ \A e \in EventKeys(settings) : OnlyManaged(settings, e))
               => K_hooks \notin TopKeys(first.value)

C6_Witness ==
    /\ pc = "reconciled"
    /\ mappings = << >>
    /\ settings = Obj(K_hooks :> Obj(EvStop :> Arr(<< GroupOf(<< OldManagedStop >>) >>)))
    /\ first.value = Obj(NoProps)

\* C8: when the mapping holds a pair with a non-empty sound id that the
\* identifier rules reject, reconcile throws an invalid-input error and
\* returns no document; every command string built comes from a pair the
\* rules accept.
C8_InvalidPairThrows ==
    pc # "start" =>
        /\ (\E i \in 1..Len(mappings) :
               Truthy(mappings[i][2]) /\ ~IsValidPair(mappings[i][1], mappings[i][2]))
               => /\ ~first.ok
                  /\ first.error \in {"Invalid event name", "Invalid sound id"}
                  /\ "value" \notin DOMAIN first
        /\ \A n \in 1..Len(produced) :
               \E i \in 1..Len(mappings) :
                   /\ IsValidPair(mappings[i][1], mappings[i][2])
                   /\ produced[n] = ExpectedCommand(mappings[i][1], mappings[i][2].s)

C8_Witness ==
    /\ pc = "threw"
    /\ mappings = << << EvStop, Str(Ring1) >>, << LowerStop, Str(Ring1) >> >>
    /\ first = Throw("Invalid event name", Str(LowerStop))
    /\ produced = << ExpectedCommand(EvStop, Ring1) >>

\* C9: in a document reconcile returned, an event with a non-empty sound
\* has exactly one managed handler, alone in the last group under the
\* event, whose matcher is * and whose command is the expected string; an
\* event key without one has no managed handler.
C9_OneManagedHandlerLast ==
    Reconciled =>
        /\ MappedEvents \subseteq EventKeys(first.value)
        /\ \A e \in EventKeys(first.value) :
               LET groups == GroupsUnder(first.value, e)
               IN  IF e \in MappedEvents
                   THEN /\ Len(groups) >= 1
                        /\ ManagedCount(groups, 1) = 1
                        /\ Get(groups[Len(groups)], K_matcher) = Str(<< "*" >>)
                        /\ Len(HandlersOf(groups[Len(groups)])) = 1
                        /\ Get(HandlersOf(groups[Len(groups)])[1], K_command)
                               = Str(ExpectedCommand(e, SoundOf(e).s))
                   ELSE ManagedCount(groups, 1) = 0

C9_Witness ==
    /\ pc = "reconciled"
    /\ mappings = StopRing1
    /\ GroupsUnder(settings, EvStop)
           = << GroupOf(<< OldManagedStop >>), GroupOf(<< Handler(ForeignCommand) >>) >>
    /\ GroupsUnder(first.value, EvStop)
           = << GroupOf(<< Handler(ForeignCommand) >>),
                ManagedGroup(Str(ExpectedCommand(EvStop, Ring1))) >>

(***************************************************************************)
(* applyMappingsToSettings on the heap (hooks.js 109-157)                  *)
(*                                                                         *)
(* Objects and arrays are cells of a heap and are held by reference, so    *)
(* that an assignment to a property, a delete and a push change the cell   *)
(* they are applied to, whoever else holds a reference to it.  A spread,   *)
(* a filter and a literal allocate a new cell.                             *)
(***************************************************************************)

Ref(a) == [t |-> "ref", addr |-> a]
IsRef(v) == v.t = "ref"

ObjectCell(props) == [t |-> "object", o |-> props]
ArrayCell(elems) == [t |-> "array", a |-> elems]

\* A new cell at a fresh address, and the reference to it.
New(h, cell) == [heap |-> Append(h, cell), ref |-> Ref(Len(h) + 1)]

RefIsArray(h, v) == IsRef(v) /\ h[v.addr].t = "array"
RefIsObject(h, v) == IsRef(v) /\ h[v.addr].t = "object"

\* v?.k
HeapGet(h, v, k) ==
    IF RefIsObject(h, v) /\ k \in DOMAIN h[v.addr].o THEN h[v.addr].o[k] ELSE Undefined

\* The properties { ...v } copies; the values are copied as they are, a
\* reference as a reference.
HeapSpread(h, v) == IF RefIsObject(h, v) THEN h[v.addr].o ELSE NoProps

\* ref[k] = v, delete ref[k], ref.push(v)
WriteProp(h, ref, k, v) ==
    [h EXCEPT ![ref.addr] = ObjectCell(SetKey(h[ref.addr].o, k, v))]
DeleteProp(h, ref, k) ==
    [h EXCEPT ![ref.addr] = ObjectCell(DeleteKey(h[ref.addr].o, k))]
Push(h, ref, v) ==
    [h EXCEPT ![ref.addr] = ArrayCell(Append(h[ref.addr].a, v))]

\* The keys of an object in the order Object.entries lists them; the
\* model fixes one order, the iterations of the first phase being
\* independent of one another.
RECURSIVE KeysInOrder(_)
KeysInOrder(keys) ==
    IF keys = {} THEN << >>
    ELSE LET k == CHOOSE x \in keys : TRUE
         IN  << k >> \o KeysInOrder(keys \ {k})

\* value, evaluated once, handed to Continue.
Then(value, Continue(_)) == CHOOSE r \in {Continue(x) : x \in {value}} : TRUE

\* The heap JSON.parse builds for a value: a cell per object and array.
RECURSIVE Alloc(_, _)
RECURSIVE AllocProps(_, _, _, _)
RECURSIVE AllocElems(_, _, _, _)
Alloc(h, v) ==
    IF v.t = "object"
    THEN Then(AllocProps(h, v.o, DOMAIN v.o, NoProps),
              LAMBDA r : New(r.heap, ObjectCell(r.props)))
    ELSE IF v.t = "array"
    THEN Then(AllocElems(h, v.a, 1, << >>),
              LAMBDA r : New(r.heap, ArrayCell(r.elems)))
    ELSE [heap |-> h, ref |-> v]

AllocProps(h, o, keys, acc) ==
    IF keys = {} THEN [heap |-> h, props |-> acc]
    ELSE LET k == CHOOSE x \in keys : TRUE
         IN  Then(Alloc(h, o[k]),
                  LAMBDA c : AllocProps(c.heap, o, keys \ {k}, SetKey(acc, k, c.ref)))

AllocElems(h, a, i, acc) ==
    IF i > Len(a) THEN [heap |-> h, elems |-> acc]
    ELSE Then(Alloc(h, a[i]),
              LAMBDA c : AllocElems(c.heap, a, i + 1, Append(acc, c.ref)))

\* The JSON value a reference stands for.
RECURSIVE Deep(_, _)
Deep(h, v) ==
    IF ~IsRef(v) THEN v
    ELSE IF h[v.addr].t = "object"
    THEN Obj([k \in DOMAIN h[v.addr].o |-> Deep(h, h[v.addr].o[k])])
    ELSE Arr([i \in 1..Len(h[v.addr].a) |-> Deep(h, h[v.addr].a[i])])

\* The mapping object whose Object.entries is the sequence entries.
MappingObject(entries) ==
    Obj([k \in {entries[i][1] : i \in 1..Len(entries)} |->
            entries[CHOOSE i \in 1..Len(entries) : entries[i][1] = k][2]])

\* The inner loop of the first phase, from group i on:
\* for (const g of groups) { ... newGroups.push({ ...g, hooks: kept }) }
RECURSIVE HeapStripGroups(_, _, _, _)
HeapStripGroups(h, groups, newGroups, i) ==
    IF i > Len(h[groups.addr].a) THEN h
    ELSE LET g == h[groups.addr].a[i]
             gh == HeapGet(h, g, K_hooks)
             handlers == IF RefIsArray(h, gh) THEN h[gh.addr].a ELSE << >>
             filtered == SelectSeq(handlers,
                             LAMBDA x : ~isManagedCommand(HeapGet(h, x, K_command)))
         IN  Then(New(h, ArrayCell(filtered)), LAMBDA kept :
                 IF Len(kept.heap[kept.ref.addr].a) > 0
                 THEN Then(New(kept.heap,
                               ObjectCell(SetKey(HeapSpread(kept.heap, g),
                                                 K_hooks, kept.ref))),
                           LAMBDA group :
                               Then(Push(group.heap, newGroups, group.ref),
                                    LAMBDA pushed :
                                        HeapStripGroups(pushed, groups, newGroups, i + 1)))
                 ELSE HeapStripGroups(kept.heap, groups, newGroups, i + 1))

\* The first phase, from entry i of Object.entries(out.hooks) on.
RECURSIVE HeapStripManaged(_, _, _, _)
HeapStripManaged(h, hooks, entries, i) ==
    IF i > Len(entries) THEN h
    ELSE LET eventName == entries[i][1]
             groups == entries[i][2]
         IN  IF ~RefIsArray(h, groups) THEN HeapStripManaged(h, hooks, entries, i + 1)
             ELSE Then(New(h, ArrayCell(<< >>)), LAMBDA newGroups :
                      Then(HeapStripGroups(newGroups.heap, groups, newGroups.ref, 1),
                           LAMBDA stripped :
                      Then(IF Len(stripped[newGroups.ref.addr].a) > 0
                           THEN WriteProp(stripped, hooks, eventName, newGroups.ref)
                           ELSE DeleteProp(stripped, hooks, eventName),
                           LAMBDA written :
                               HeapStripManaged(written, hooks, entries, i + 1))))

\* const handler = {...}; const group = { matcher: '*', hooks: [handler] }
HeapManagedGroup(h, command) ==
    Then(New(h, ObjectCell(ManagedHandler(command).o)), LAMBDA handler :
        Then(New(handler.heap, ArrayCell(<< handler.ref >>)), LAMBDA handlers :
            New(handlers.heap,
                ObjectCell((K_matcher :> Str(<< "*" >>)) @@ (K_hooks :> handlers.ref)))))

\* The second phase, from entry i of Object.entries(mappings) on.
RECURSIVE HeapApplyEntries(_, _, _, _)
HeapApplyEntries(h, hooks, entries, i) ==
    IF i > Len(entries) THEN [heap |-> h, result |-> Return(Undefined)]
    ELSE LET eventName == entries[i][1]
             soundId == entries[i][2]
             current == HeapGet(h, hooks, eventName)
             existingGroups == IF RefIsArray(h, current) THEN h[current.addr].a ELSE << >>
         IN  IF ~Truthy(soundId) THEN HeapApplyEntries(h, hooks, entries, i + 1)
             ELSE Then(buildManagedCommand(Str(eventName), soundId), LAMBDA built :
                      IF ~built.ok THEN [heap |-> h, result |-> built]
                      ELSE Then(HeapManagedGroup(h, built.value), LAMBDA group :
                           Then(New(group.heap,
                                    ArrayCell(existingGroups \o << group.ref >>)),
                                LAMBDA appended :
                           Then(WriteProp(appended.heap, hooks, eventName, appended.ref),
                                LAMBDA written :
                                    HeapApplyEntries(written, hooks, entries, i + 1)))))

\* Object.entries of the object a reference names, keys in the order given.
HeapEntries(h, ref, keys) == [i \in 1..Len(keys) |-> << keys[i], h[ref.addr].o[keys[i]] >>]

\* out.hooks = out.hooks || {}: the caller's hooks object itself.
HeapCopyHooks_Alias(h, outHooks) ==
    IF Truthy(outHooks) THEN [heap |-> h, ref |-> outHooks]
    ELSE New(h, ObjectCell(NoProps))

\* out.hooks = { ...(out.hooks || {}) }
HeapCopyHooks(h, outHooks) ==
    New(h, ObjectCell(HeapSpread(h, IF Truthy(outHooks) THEN outHooks ELSE Undefined)))

\* applyMappingsToSettings(settings, mappings) for the references the caller
\* passes; mappingKeys is the order of the keys of mappings.  It yields the
\* heap the call leaves and the reference returned or the error thrown.
HeapApplyMappingsToSettings(h, settingsRef, mappingsRef, mappingKeys) ==
    Then(New(h, ObjectCell(HeapSpread(h, settingsRef))), LAMBDA out :
    Then(HeapCopyHooks(out.heap, HeapGet(out.heap, out.ref, K_hooks)), LAMBDA hooks :
    Then(WriteProp(hooks.heap, out.ref, K_hooks, hooks.ref), LAMBDA assigned :
    Then(HeapStripManaged(
             assigned, hooks.ref,
             HeapEntries(assigned, hooks.ref,
                         KeysInOrder(DOMAIN assigned[hooks.ref.addr].o)),
             1), LAMBDA stripped :
    Then(HeapApplyEntries(stripped, hooks.ref,
                          HeapEntries(stripped, mappingsRef, mappingKeys), 1),
         LAMBDA applied :
             IF ~applied.result.ok THEN applied
             ELSE IF DOMAIN applied.heap[hooks.ref.addr].o = {}
             THEN [heap |-> DeleteProp(applied.heap, out.ref, K_hooks),
                   result |-> Return(out.ref)]
             ELSE [heap |-> applied.heap, result |-> Return(out.ref)])))))

\* The heap before the call: the settings document as parsed and the
\* mappings object.
InputHeap(doc, entries) ==
    Then(Alloc(<< >>, doc), LAMBDA s :
        Then(Alloc(s.heap, MappingObject(entries)), LAMBDA m :
            [heap |-> m.heap, roots |-> [settings |-> s.ref, mappings |-> m.ref]]))

InitHeap ==
    /\ \/ settings \in SettingsDocs /\ mappings \in ValidMappingEntries
       \/ settings \in FewSettingsDocs /\ mappings \in InvalidMappingEntries
    /\ \E input \in {InputHeap(settings, mappings)} :
           heap = input.heap /\ roots = input.roots
    /\ returned = NotRun
    /\ pc = "heap:start"
    /\ first = NotRun
    /\ produced = << >>
    /\ second = NotRun
    /\ extracted = NotRun
    /\ ValidatorIdle
    /\ LaterIdle

HeapReconcile ==
    /\ pc = "heap:start"
    /\ \E call \in {HeapApplyMappingsToSettings(
                          heap, roots.settings, roots.mappings,
                          [i \in 1..Len(mappings) |-> mappings[i][1]])} :
           /\ heap' = call.heap
           /\ returned' = call.result
    /\ pc' = "heap:done"
    /\ UNCHANGED << roots, varsReconciler, varsValidator, varsLater >>

NextHeap == HeapReconcile

SpecHeap == InitHeap /\ [][NextHeap]_vars

\* The document the call on the heap returns is the document the call on
\* values returns, and it throws where that one throws.
HeapAgreesWithValues ==
    pc = "heap:done" =>
        LET byValue == applyMappingsToSettings(settings, mappings)
        IN  IF byValue.ok
            THEN returned.ok /\ Deep(heap, returned.value) = byValue.value
            ELSE returned = byValue

\* C7: reconcile never mutates its input: after the call has returned or
\* thrown, every object and array that existed before it is as it was, so
\* the caller's settings and mappings are deep-equal to what they were.
C7_InputNotMutated ==
    pc = "heap:done" =>
        \A before \in {InputHeap(settings, mappings).heap} :
            /\ Len(heap) >= Len(before)
            /\ \A a \in 1..Len(before) : heap[a] = before[a]
            /\ Deep(heap, roots.settings) = settings
            /\ Deep(heap, roots.mappings) = MappingObject(mappings)

C7_Witness ==
    /\ pc = "heap:done"
    /\ mappings = StopRing1
    /\ GroupsUnder(settings, EvStop)
           = << GroupOf(<< Handler(ForeignCommand), OldManagedStop >>) >>
    /\ returned.ok
    /\ Deep(heap, returned.value) # settings
    /\ Deep(heap, roots.settings) = settings

(***************************************************************************)
(* Preview playback (play.js 29-110 and 128-175)                           *)
(*                                                                         *)
(* A child process is an index into procs.  Its record says whether the    *)
(* operating-system process is alive and which of its events are still to  *)
(* be delivered to the listeners registered at lines 148-153.  A call of   *)
(* an exported function runs to completion before any event is delivered.  *)
(* SIGKILL ends its target at once.                                        *)
(***************************************************************************)

NoProcess == 0
NoPid == 0

\* Number of preview processes spawned in one run.
MaxSpawns == 3

PLAYERS ==
    << "afplay", "ffplay", "mpv", "mpg123", "mpg321", "mplayer", "aplay",
       "paplay", "cvlc", "powershell.exe" >>

findExecutable(name) == name \in installed

\* The check of each entry of PLAYERS.
PlayerCheck(name) ==
    CASE name = "afplay" -> platform = "darwin" /\ findExecutable(name)
      [] name = "powershell.exe" -> platform = "win32"
      [] OTHER -> findExecutable(name)

Player(name) == [t |-> "object", name |-> name]

\* Returns the player and the value _resolvedPlayer has afterwards.
getPlayer(resolved) ==
    IF Truthy(resolved)
    THEN [ok |-> TRUE, value |-> resolved, resolvedPlayer |-> resolved]
    ELSE IF \E i \in 1..Len(PLAYERS) : PlayerCheck(PLAYERS[i])
    THEN LET i == CHOOSE k \in 1..Len(PLAYERS) :
                      /\ PlayerCheck(PLAYERS[k])
                      /\ \A j \in 1..(k - 1) : ~PlayerCheck(PLAYERS[j])
         IN  [ok |-> TRUE, value |-> Player(PLAYERS[i]),
              resolvedPlayer |-> Player(PLAYERS[i])]
    ELSE [ok |-> FALSE, error |-> "No audio player found", resolvedPlayer |-> resolved]

\* The properties every object literal inherits from Object.prototype.
ConstructorId ==
    << "c", "o", "n", "s", "t", "r", "u", "c", "t", "o", "r" >>

ToStringId ==
    << "t", "o", "S", "t", "r", "i", "n", "g" >>

ProtoId ==
    << "_", "_", "p", "r", "o", "t", "o", "_", "_" >>

ObjectPrototypeKeys ==
    { ConstructorId,
      ToStringId,
      << "t", "o", "L", "o", "c", "a", "l", "e", "S", "t", "r", "i", "n", "g" >>,
      << "v", "a", "l", "u", "e", "O", "f" >>,
      << "h", "a", "s", "O", "w", "n", "P", "r", "o", "p", "e", "r", "t", "y" >>,
      << "i", "s", "P", "r", "o", "t", "o", "t", "y", "p", "e", "O", "f" >>,
      << "p", "r", "o", "p", "e", "r", "t", "y", "I", "s", "E", "n", "u", "m", "e", "r",
      "a", "b", "l", "e" >>,
      ProtoId,
      << "_", "_", "d", "e", "f", "i", "n", "e", "G", "e", "t", "t", "e", "r", "_", "_" >>,
      << "_", "_", "d", "e", "f", "i", "n", "e", "S", "e", "t", "t", "e", "r", "_", "_" >>,
      << "_", "_", "l", "o", "o", "k", "u", "p", "G", "e", "t", "t", "e", "r", "_", "_" >>,
      << "_", "_", "l", "o", "o", "k", "u", "p", "S", "e", "t", "t", "e", "r", "_", "_" >> }

\* What obj[key] reads for an object created by a literal: an own property,
\* else an inherited one, else undefined.
Member(obj, key) ==
    IF key \in DOMAIN obj.o THEN obj.o[key]
    ELSE IF key \in ObjectPrototypeKeys THEN [t |-> "function"]
    ELSE Undefined

resolveSoundPath(cache, soundId) ==
    IF ~Truthy(cache) THEN Throw("Sounds not loaded", soundId)
    ELSE LET p == Member(cache, soundId)
         IN  IF ~Truthy(p) THEN Throw("Unknown sound", soundId) ELSE Return(p)

\* The module state of play.js a preview call reads and writes.
PlayState ==
    [previewProcess |-> previewProcess, procs |-> procs, signals |-> signals,
     resolvedPlayer |-> resolvedPlayer]

PlayReturn(st) == [ok |-> TRUE, st |-> st]
PlayThrow(st, msg) == [ok |-> FALSE, st |-> st, error |-> msg]

\* Lines 164-169: SIGKILL to the process group of child p, or to the child
\* itself on win32 or when it has no pid.  process.kill raises when no
\* process is left to signal (esrch); child.kill does not raise.
KillCall(st, p, esrch) ==
    LET proc == st.procs[p]
        byGroup == proc.pid # NoPid /\ platform # "win32"
    IN  [raised |-> byGroup /\ ~proc.alive /\ esrch,
         st |-> [st EXCEPT
                    !.procs[p].alive = FALSE,
                    !.procs[p].exitQueued = @ \/ proc.alive,
                    !.signals = Append(@,
                        [target |-> p, signal |-> "SIGKILL",
                         call |-> IF byGroup THEN "process.kill" ELSE "child.kill"])]]

\* stopPreview without the try/catch around the kill.
stopPreview_NoCatch(st, esrch) ==
    IF st.previewProcess # NoProcess
    THEN LET k == KillCall(st, st.previewProcess, esrch)
         IN  IF k.raised THEN PlayThrow(k.st, "ESRCH")
             ELSE PlayReturn([k.st EXCEPT !.previewProcess = NoProcess])
    ELSE PlayReturn(st)

stopPreview(st, esrch) ==
    IF st.previewProcess # NoProcess
    THEN LET k == KillCall(st, st.previewProcess, esrch)
         IN  PlayReturn([k.st EXCEPT !.previewProcess = NoProcess])
    ELSE PlayReturn(st)

\* child_process.spawn: the child runs ("ok"), or it could not be started and
\* an error event is queued ("error"), or spawn itself throws ("throws").
SpawnOutcomes == {"ok", "error", "throws"}

Spawned(st, outcome) ==
    LET p == Len(st.procs) + 1
    IN  [st EXCEPT
            !.procs = Append(@, [pid |-> IF outcome = "ok" THEN p ELSE NoPid,
                                 alive |-> outcome = "ok",
                                 exitQueued |-> FALSE,
                                 errorQueued |-> outcome = "error"]),
            !.previewProcess = p]

\* playSoundPreview without the stopPreview() of line 138.
playSoundPreview_NoStop(st, cache, soundId, esrch, outcome) ==
    LET file == resolveSoundPath(cache, soundId)
        player == getPlayer(st.resolvedPlayer)
        probed == [st EXCEPT !.resolvedPlayer = player.resolvedPlayer]
    IN  IF ~file.ok THEN PlayThrow(st, file.error)
        ELSE IF ~player.ok THEN PlayThrow(probed, player.error)
        ELSE IF ~IsString(file.value) \/ outcome = "throws"
        THEN PlayThrow(probed, "spawn")
        ELSE PlayReturn(Spawned(probed, outcome))

playSoundPreview(st, cache, soundId, esrch, outcome) ==
    LET stopped == stopPreview(st, esrch)
        file == resolveSoundPath(cache, soundId)
        player == getPlayer(stopped.st.resolvedPlayer)
        probed == [stopped.st EXCEPT !.resolvedPlayer = player.resolvedPlayer]
    IN  IF ~stopped.ok THEN stopped
        ELSE IF ~file.ok THEN PlayThrow(stopped.st, file.error)
        ELSE IF ~player.ok THEN PlayThrow(probed, player.error)
        ELSE IF ~IsString(file.value) \/ outcome = "throws"
        THEN PlayThrow(probed, "spawn")
        ELSE PlayReturn(Spawned(probed, outcome))

\* The listener without the test _previewProcess === proc.
Listener_Unconditional(tracked, p) == NoProcess

\* The listener of lines 148-153 registered for child p.
Listener(tracked, p) == IF tracked = p THEN NoProcess ELSE tracked

UnknownId ==
    << "n", "o", "s", "u", "c", "h" >>

SoundsDir ==
    << "/", "p", "k", "g", "/", "a", "s", "s", "e", "t", "s", "/", "s", "o", "u", "n",
      "d", "s" >>

CustomSoundsDir ==
    << "/", "h", "o", "m", "e", "/", "u", "/", ".", "c", "l", "a", "u", "d", "e", "-",
      "s", "o", "u", "n", "d", "/", "s", "o", "u", "n", "d", "s" >>

Ring1Path ==
    << "/", "p", "k", "g", "/", "a", "s", "s", "e", "t", "s", "/", "s", "o", "u", "n",
      "d", "s", "/", "r", "i", "n", "g", "1", ".", "w", "a", "v" >>

CommonPopPath ==
    << "/", "p", "k", "g", "/", "a", "s", "s", "e", "t", "s", "/", "s", "o", "u", "n",
      "d", "s", "/", "c", "o", "m", "m", "o", "n", "/", "p", "o", "p", ".", "m", "p", "3" >>

\* The index a listing has cached when the prompt previews sounds.
PreviewIndex ==
    [t |-> "object",
     o |-> (Ring1 :> Str(Ring1Path)) @@ (CommonPop :> Str(CommonPopPath)),
     keys |-> << Ring1, CommonPop >>]

PreviewSoundIds == {Ring1, CommonPop, UnknownId, ConstructorId}

InitPreview ==
    /\ previewProcess = NoProcess
    /\ procs = << >>
    /\ signals = << >>
    /\ resolvedPlayer = Null
    /\ platform \in {"darwin", "linux", "win32"}
    /\ installed \in {{}, {"mpv"}, {"afplay", "mpv"}}
    /\ lastStart = NoProcess
    /\ called = NotRun
    /\ soundPathCache \in {Null, PreviewIndex}
    /\ CatalogUnused
    /\ AcquireIdle
    /\ EditorIdle
    /\ pc = "preview"
    /\ ReconcilerIdle
    /\ ValidatorIdle
    /\ HeapIdle

varsNotPreview ==
    << varsReconciler, varsValidator, varsHeap, pc, varsCatalog, varsAcquire,
       varsEditor >>

SetPlayState(st) ==
    /\ previewProcess' = st.previewProcess
    /\ procs' = st.procs
    /\ signals' = st.signals
    /\ resolvedPlayer' = st.resolvedPlayer

\* selectWithSoundPreview moves the cursor: playSoundPreview(String(value)).
PlaySoundPreview ==
    /\ pc = "preview"
    /\ Len(procs) < MaxSpawns
    /\ \E soundId \in PreviewSoundIds, esrch \in BOOLEAN, outcome \in SpawnOutcomes :
           \E call \in {playSoundPreview(PlayState, soundPathCache, soundId,
                                         esrch, outcome)} :
               /\ SetPlayState(call.st)
               /\ lastStart' = IF call.ok THEN call.st.previewProcess ELSE NoProcess
               /\ called' = [op |-> "playSoundPreview", soundId |-> soundId,
                             tracked |-> previewProcess,
                             ok |-> call.ok,
                             killRaised |-> previewProcess # NoProcess
                                 /\ KillCall(PlayState, previewProcess, esrch).raised]
    /\ UNCHANGED << platform, installed, varsNotPreview >>

\* selectWithSoundPreview is submitted or cancelled: stopPreview().
StopPreview ==
    /\ pc = "preview"
    /\ \E esrch \in BOOLEAN :
           \E call \in {stopPreview(PlayState, esrch)} :
               /\ SetPlayState(call.st)
               /\ called' = [op |-> "stopPreview", soundId |-> << >>,
                             tracked |-> previewProcess,
                             ok |-> call.ok,
                             killRaised |-> previewProcess # NoProcess
                                 /\ KillCall(PlayState, previewProcess, esrch).raised]
    /\ UNCHANGED << lastStart, platform, installed, varsNotPreview >>

\* The player of child p finishes the file, or dies.
ProcessEnds(p) ==
    /\ procs[p].alive
    /\ procs' = [procs EXCEPT ![p].alive = FALSE, ![p].exitQueued = TRUE]
    /\ UNCHANGED << previewProcess, signals, resolvedPlayer, platform, installed,
                    lastStart, called, varsNotPreview >>

\* proc.on('exit', ...) of child p runs.
EmitExit(p) ==
    /\ procs[p].exitQueued
    /\ procs' = [procs EXCEPT ![p].exitQueued = FALSE]
    /\ previewProcess' = Listener(previewProcess, p)
    /\ UNCHANGED << signals, resolvedPlayer, platform, installed, lastStart,
                    called, varsNotPreview >>

\* proc.on('error', ...) of child p runs.
EmitError(p) ==
    /\ procs[p].errorQueued
    /\ procs' = [procs EXCEPT ![p].errorQueued = FALSE]
    /\ previewProcess' = Listener(previewProcess, p)
    /\ UNCHANGED << signals, resolvedPlayer, platform, installed, lastStart,
                    called, varsNotPreview >>

ProcessEndsSome == \E p \in 1..Len(procs) : ProcessEnds(p)
EmitExitSome == \E p \in 1..Len(procs) : EmitExit(p)
EmitErrorSome == \E p \in 1..Len(procs) : EmitError(p)

NextPreview ==
    \/ PlaySoundPreview
    \/ StopPreview
    \/ ProcessEndsSome
    \/ EmitExitSome
    \/ EmitErrorSome

SpecPreview == InitPreview /\ [][NextPreview]_vars

Running == {p \in 1..Len(procs) : procs[p].alive}

\* C11: at most one preview process is alive at a time, a process that is
\* alive is the one the most recent playSoundPreview spawned, and a call of
\* playSoundPreview leaves no process alive that was alive before it.
C11_AtMostOnePreviewAlive ==
    /\ [](/\ Cardinality(Running) <= 1
          /\ \A p \in Running : p = lastStart /\ p = Len(procs))
    /\ [][called'.op = "playSoundPreview" /\ called' # called
              => \A p \in Running : ~procs'[p].alive]_vars

C11_Witness ==
    /\ Len(procs) = 3
    /\ ~procs[1].alive /\ procs[1].exitQueued
    /\ ~procs[2].alive /\ ~procs[2].exitQueued
    /\ procs[3].alive
    /\ previewProcess = 3
    /\ Len(signals) = 1

\* C19: stopPreview always returns and leaves no process tracked, whether
\* none was tracked, the tracked one had exited or the kill raised; with
\* none tracked it changes nothing, so a second call right after the first
\* changes nothing; every signal sent is SIGKILL.
C19_StopPreviewIdempotent ==
    /\ \A esrch \in BOOLEAN :
           LET once == stopPreview(PlayState, esrch)
           IN  /\ once.ok
               /\ once.st.previewProcess = NoProcess
               /\ previewProcess = NoProcess => once.st = PlayState
               /\ \A again \in BOOLEAN : stopPreview(once.st, again) = once
    /\ \A i \in 1..Len(signals) : signals[i].signal = "SIGKILL"
    /\ called # NotRun /\ called.op = "stopPreview" =>
           called.ok /\ previewProcess = NoProcess

C19_Witness ==
    /\ called # NotRun
    /\ called.op = "stopPreview"
    /\ called.tracked # NoProcess
    /\ called.killRaised
    /\ called.ok
    /\ previewProcess = NoProcess

(***************************************************************************)
(* The sound catalog (sounds.js 9-217)                                     *)
(*                                                                         *)
(* An index is an object whose keys keep their insertion order.  The file  *)
(* system is what the catalog reads: the bundled manifest, the bundled     *)
(* subdirectories, the custom directory and order.json, each Null when it  *)
(* is missing or unreadable.  An async function is a task; each await is   *)
(* a step of its                                                           *)
(* own, so that calls overlap as the event loop lets them.  Paths are      *)
(* joined with the POSIX separator.                                        *)
(***************************************************************************)

DotMp3 ==
    << ".", "m", "p", "3" >>

DotWav ==
    << ".", "w", "a", "v" >>

CommonPrefix ==
    << "c", "o", "m", "m", "o", "n", "/" >>

GamePrefix ==
    << "g", "a", "m", "e", "/" >>

CustomPrefix ==
    << "c", "u", "s", "t", "o", "m", "/" >>

CommonDir ==
    << "/", "p", "k", "g", "/", "a", "s", "s", "e", "t", "s", "/", "s", "o", "u", "n",
      "d", "s", "/", "c", "o", "m", "m", "o", "n" >>

GameDir ==
    << "/", "p", "k", "g", "/", "a", "s", "s", "e", "t", "s", "/", "s", "o", "u", "n",
      "d", "s", "/", "g", "a", "m", "e" >>

K_id ==
    << "i", "d" >>

K_label ==
    << "l", "a", "b", "e", "l" >>

K_common ==
    << "c", "o", "m", "m", "o", "n" >>

K_game ==
    << "g", "a", "m", "e" >>

K_ring ==
    << "r", "i", "n", "g" >>

K_custom ==
    << "c", "u", "s", "t", "o", "m" >>

Index(o, keys) == [t |-> "object", o |-> o, keys |-> keys]

EmptyIndex == Index(NoProps, << >>)

\* map[id] = path.  Assigning a string to __proto__ adds no property.
Put(map, id, path) ==
    IF id = ProtoId THEN map
    ELSE Index(SetKey(map.o, id, Str(path)),
               IF id \in DOMAIN map.o THEN map.keys ELSE Append(map.keys, id))

\* path.join of a directory and a name that holds no separator.
PathJoin(dir, name) == dir \o << "/" >> \o name

EndsWith(s, suffix) == MatchesAt(s, suffix, Len(s) - Len(suffix) + 1)
StartsWith(s, prefix) == MatchesAt(s, prefix, 1)

\* path.basename(p): what follows the last separator.
BaseName(p) ==
    Then(p, LAMBDA path :
        Then({i \in 1..Len(path) : path[i] = "/"}, LAMBDA seps :
            IF seps = {} THEN path
            ELSE SubSeq(path, (CHOOSE i \in seps : \A j \in seps : j <= i) + 1,
                        Len(path))))

\* path.extname(p): from the last dot of the base name on, unless that dot
\* opens the base name.
ExtName(p) ==
    Then(BaseName(p), LAMBDA b :
        Then({i \in 1..Len(b) : b[i] = "."}, LAMBDA dots :
            IF dots = {} THEN << >>
            ELSE Then(CHOOSE i \in dots : \A j \in dots : j <= i, LAMBDA last :
                     IF last = 1 THEN << >> ELSE SubSeq(b, last, Len(b)))))

\* path.basename(p, ext)
BaseNameWithout(p, ext) ==
    Then(BaseName(p), LAMBDA b :
        Then(ext, LAMBDA suffix :
            IF Len(suffix) > 0 /\ EndsWith(b, suffix)
            THEN SubSeq(b, 1, Len(b) - Len(suffix))
            ELSE b))

ManifestItem(id, file) == [id |-> id, file |-> file]
Dirent(name, isFile) == [name |-> name, isFile |-> isFile]

\* e.isFile() && (e.name.endsWith('.mp3') || e.name.endsWith('.wav'))
IsSoundFile(e) == e.isFile /\ (EndsWith(e.name, DotMp3) \/ EndsWith(e.name, DotWav))

\* What a build has gathered: the map, and every (id, path) it discovered,
\* in discovery order.
Gathered(map, seen) == [map |-> map, seen |-> seen]

\* Lines 41-50.
RECURSIVE FromManifest(_, _, _)
FromManifest(g, items, i) ==
    IF ~IsArray(items) \/ i > Len(items.a) THEN g
    ELSE LET it == items.a[i]
             path == PathJoin(SoundsDir, BaseName(it.file))
         IN  FromManifest(Gathered(Put(g.map, it.id, path),
                                   Append(g.seen, << it.id, path >>)),
                          items, i + 1)

\* Lines 57-63 and 72-78: idPrefix is 'common/', 'game/' or 'custom/'.
RECURSIVE FromDir(_, _, _, _, _)
FromDir(g, entries, i, idPrefix, dir) ==
    IF ~IsArray(entries) \/ i > Len(entries.a) THEN g
    ELSE IF IsSoundFile(entries.a[i])
    THEN LET name == entries.a[i].name
             id == idPrefix \o BaseNameWithout(name, ExtName(name))
             path == PathJoin(dir, name)
         IN  FromDir(Gathered(Put(g.map, id, path), Append(g.seen, << id, path >>)),
                     entries, i + 1, idPrefix, dir)
    ELSE FromDir(g, entries, i + 1, idPrefix, dir)

IsDigit(c) == InRange(c, "0", "9")

\* parseInt(a.replace(/\D/g, ''), 10) || 0
RECURSIVE DecimalValue(_, _, _)
DecimalValue(digits, i, acc) ==
    IF i > Len(digits) THEN acc
    ELSE DecimalValue(digits, i + 1, acc * 10 + (CharCode(digits[i]) - CharCode("0")))

RingNumber(id) == DecimalValue(SelectSeq(id, IsDigit), 1, 0)

\* The comparison of Array.prototype.sort() without a comparator: by code
\* units.
LexLess(a, b) ==
    \E k \in 1..(Len(b)) :
        /\ \A j \in 1..(k - 1) : j <= Len(a) /\ a[j] = b[j]
        /\ \/ k = Len(a) + 1
           \/ k <= Len(a) /\ CharCode(a[k]) < CharCode(b[k])

\* Array.prototype.sort: a stable sort by Less.
StableSort(s, Less(_, _)) ==
    LET Rank(i) ==
            Cardinality({j \in 1..Len(s) : Less(s[j], s[i])})
            + Cardinality({j \in 1..(i - 1) : ~Less(s[j], s[i]) /\ ~Less(s[i], s[j])})
            + 1
    IN  [p \in 1..Len(s) |-> s[CHOOSE i \in 1..Len(s) : Rank(i) = p]]

\* grouped.ring.sort() with the default comparison instead of line 174-178.
SortRing_Lexicographic(ring) == StableSort(ring, LexLess)

\* Lines 174-178.
SortRing(ring) == StableSort(ring, LAMBDA a, b : RingNumber(a) < RingNumber(b))

\* Lines 159-180.
GroupAndSort(map) ==
    LET In(prefix) == SelectSeq(map.keys, LAMBDA id : StartsWith(id, prefix))
        common == In(CommonPrefix)
        game == In(GamePrefix)
        custom == In(CustomPrefix)
        ring == SelectSeq(map.keys, LAMBDA id :
                    /\ ~StartsWith(id, CommonPrefix)
                    /\ ~StartsWith(id, GamePrefix)
                    /\ ~StartsWith(id, CustomPrefix))
    IN  [common |-> StableSort(common, LexLess),
         game |-> StableSort(game, LexLess),
         ring |-> SortRing(ring),
         custom |-> custom]

\* parseOrderEntry reading only entries that are strings.
parseOrderEntry_StringsOnly(entry) ==
    IF IsString(entry) THEN [id |-> entry.s, label |-> Undefined]
    ELSE [id |-> << >>, label |-> Undefined]

\* Lines 97-103: the id and the label, undefined when there is none.
parseOrderEntry(entry) ==
    IF IsString(entry) THEN [id |-> entry.s, label |-> Undefined]
    ELSE IF IsObject(entry) /\ IsString(Get(entry, K_id))
    THEN [id |-> Get(entry, K_id).s,
          label |-> IF IsString(Get(entry, K_label)) THEN Get(entry, K_label)
                    ELSE Undefined]
    ELSE [id |-> << >>, label |-> Undefined]

\* Lines 131-141: acc holds result, the ids still in idSet, and labels.
RECURSIVE OrderEntries(_, _, _)
OrderEntries(ordered, i, acc) ==
    IF i > Len(ordered) THEN acc
    ELSE LET e == parseOrderEntry(ordered[i])
         IN  IF Len(e.id) > 0 /\ InSeq(e.id, acc.idSet)
             THEN OrderEntries(ordered, i + 1,
                      [result |-> Append(acc.result, e.id),
                       idSet |-> SelectSeq(acc.idSet, LAMBDA x : x # e.id),
                       labels |-> IF Truthy(e.label)
                                  THEN SetKey(acc.labels, e.id, e.label.s)
                                  ELSE acc.labels])
             ELSE OrderEntries(ordered, i + 1, acc)

GroupKeys == << "common", "game", "ring", "custom" >>

OrderKey(key) ==
    CASE key = "common" -> K_common
      [] key = "game" -> K_game
      [] key = "ring" -> K_ring
      [] key = "custom" -> K_custom

\* Lines 126-129: the override reorders this group.
OverrideApplies(grouped, order, key) ==
    /\ Truthy(order) /\ TypeofObject(order)
    /\ Len(grouped[key]) > 0
    /\ IsArray(Get(order, OrderKey(key)))

\* Lines 114-145.  order is the parsed order.json, or Null when the file
\* is missing or is not JSON.
RECURSIVE applyCustomOrder(_, _, _, _)
applyCustomOrder(grouped, labels, order, k) ==
    IF k > Len(GroupKeys) THEN [grouped |-> grouped, labels |-> labels]
    ELSE IF ~OverrideApplies(grouped, order, GroupKeys[k])
    THEN applyCustomOrder(grouped, labels, order, k + 1)
    ELSE LET key == GroupKeys[k]
             done == OrderEntries(Get(order, OrderKey(key)).a, 1,
                         [result |-> << >>, idSet |-> grouped[key], labels |-> labels])
         IN  applyCustomOrder([grouped EXCEPT ![key] = done.result \o done.idSet],
                              done.labels, order, k + 1)

NoLabels == [id \in {} |-> << >>]

(***************************************************************************)
(* The catalog's callers: listings, invalidation, resolution               *)
(***************************************************************************)

\* Number of listing calls in one run.
MaxListings == 2

NoGroups == [common |-> << >>, game |-> << >>, ring |-> << >>, custom |-> << >>]

Ring10 ==
    << "r", "i", "n", "g", "1", "0" >>

Bell ==
    << "b", "e", "l", "l" >>

CustomMySound ==
    << "c", "u", "s", "t", "o", "m", "/", "m", "y", "-", "s", "o", "u", "n", "d" >>

PopMp3 ==
    << "p", "o", "p", ".", "m", "p", "3" >>

PopWav ==
    << "p", "o", "p", ".", "w", "a", "v" >>

BeepMp3 ==
    << "b", "e", "e", "p", ".", "m", "p", "3" >>

AlertWav ==
    << "a", "l", "e", "r", "t", ".", "w", "a", "v" >>

NotesTxt ==
    << "n", "o", "t", "e", "s", ".", "t", "x", "t" >>

SubMp3 ==
    << "s", "u", "b", ".", "m", "p", "3" >>

CoinWav ==
    << "c", "o", "i", "n", ".", "w", "a", "v" >>

HelloMp3 ==
    << "h", "e", "l", "l", "o", ".", "m", "p", "3" >>

MySoundMp3 ==
    << "m", "y", "-", "s", "o", "u", "n", "d", ".", "m", "p", "3" >>

MySoundWav ==
    << "m", "y", "-", "s", "o", "u", "n", "d", ".", "w", "a", "v" >>

Sound(name) == Dirent(name, TRUE)

RingItems(ids) == Arr([i \in 1..Len(ids) |-> ManifestItem(ids[i], ids[i] \o DotWav)])

\* Discovery orders of three manifest entries.
Orders3(a, b, c) == { << a, b, c >>, << b, c, a >>, << c, b, a >> }

CommonMixed ==
    Arr(<< Sound(BeepMp3), Sound(AlertWav), Sound(NotesTxt), Dirent(SubMp3, FALSE) >>)

\* order.json reordering the ring group: a listed id, a labelled id, an id
\* the catalog does not hold, a repeated id.
RingOverride ==
    Obj(K_ring :> Arr(<< Str(Ring10),
                         Obj((K_id :> Str(Ring1)) @@ (K_label :> Str(BeepMp3))),
                         Str(UnknownId),
                         Str(Ring10) >>))

Files(manifest, common, game, custom, order) ==
    [manifest |-> manifest, common |-> common, game |-> game, custom |-> custom,
     order |-> order]

\* The installations the catalog is run on.
Installations ==
    { Files(RingItems(ids), CommonMixed, Arr(<< Sound(CoinWav) >>), Arr(<< >>), Null) :
          ids \in Orders3(Ring1, Ring2, Ring10) }
    \cup { Files(RingItems(<< Ring10, Bell, Ring2 >>),
                 Arr(<< Sound(PopWav), Sound(PopMp3) >>), Null,
                 Arr(<< Sound(HelloMp3) >>), Null),
           Files(Arr(<< ManifestItem(CommonPop, PopWav) >>),
                 Arr(<< Sound(PopMp3), Sound(PopWav) >>), Arr(<< Sound(CoinWav) >>),
                 Null, Null),
           Files(Null, Null, Null, Null, Null),
           Files(RingItems(<< Ring10, Ring1, Ring2 >>), CommonMixed, Null, Arr(<< >>),
                 RingOverride) }

\* The files an acquisition adds to the custom directory during a run.
AcquiredFiles == {MySoundWav}

\* The ids resolveSoundPath is called with.
ResolvedIds == {Ring1, CustomMySound, UnknownId, ConstructorId}

CustomSoundFiles(custom) ==
    IF ~IsArray(custom) THEN {}
    ELSE {custom.a[i].name : i \in {j \in 1..Len(custom.a) : IsSoundFile(custom.a[j])}}

Task(op, at, hit, map) ==
    [op |-> op, at |-> at, hit |-> hit, map |-> map, seen |-> << >>, io |-> Null,
     grouped |-> NoGroups, labels |-> NoLabels, keys |-> << >>,
     after |-> atInvalidate.called, mustSee |-> atInvalidate.custom]

\* What follows `await buildSoundPathMap()` in the caller, up to its next
\* await or its return.
AfterBuild(task, map) ==
    CASE task.op = "listSounds" ->
             [task EXCEPT !.map = map, !.keys = map.keys, !.at = "done"]
      [] task.op = "ensureSoundsLoaded" ->
             [task EXCEPT !.map = map, !.at = "done"]
      [] task.op = "listSoundsGrouped" ->
             [task EXCEPT !.map = map, !.grouped = GroupAndSort(map), !.at = "order"]

ListingOps == {"listSounds", "listSoundsGrouped", "ensureSoundsLoaded"}

InitCatalog ==
    /\ soundPathCache = Null
    /\ files \in Installations
    /\ tasks = << >>
    /\ looked = NotRun
    /\ atInvalidate = [called |-> FALSE, custom |-> {}]
    /\ pc = "catalog"
    /\ ReconcilerIdle
    /\ ValidatorIdle
    /\ HeapIdle
    /\ PreviewIdle
    /\ AcquireIdle
    /\ EditorIdle

varsNotCatalog ==
    << varsReconciler, varsValidator, varsHeap, pc, varsPreview, varsAcquire,
       varsEditor >>

\* listSounds(), listSoundsGrouped() or ensureSoundsLoaded() is called:
\* line 34 returns the cached index, or the build starts.
Call(op) ==
    /\ Len(tasks) < MaxListings
    /\ tasks' = Append(tasks,
           IF Truthy(soundPathCache)
           THEN AfterBuild(Task(op, "start", TRUE, soundPathCache), soundPathCache)
           ELSE Task(op, "manifest", FALSE, EmptyIndex))
    /\ UNCHANGED << soundPathCache, files, looked, atInvalidate, varsNotCatalog >>

\* cli.js awaits each call before it makes the next one (lines 76, 87, 162
\* and 263).
StartListing ==
    /\ pc = "catalog"
    /\ \A t \in 1..Len(tasks) : tasks[t].at = "done"
    /\ \E op \in ListingOps : Call(op)

\* Lines 40-50.
ReadManifest(t) ==
    /\ tasks[t].at = "manifest"
    /\ \E g \in {FromManifest(Gathered(tasks[t].map, tasks[t].seen), files.manifest, 1)} :
           tasks' = [tasks EXCEPT ![t].map = g.map, ![t].seen = g.seen,
                                  ![t].at = "common"]
    /\ UNCHANGED << soundPathCache, files, looked, atInvalidate, varsNotCatalog >>

\* Lines 54-67, one subdirectory.
ReadSubdir(t) ==
    /\ tasks[t].at \in {"common", "game"}
    /\ \E g \in {IF tasks[t].at = "common"
                 THEN FromDir(Gathered(tasks[t].map, tasks[t].seen), files.common, 1,
                              CommonPrefix, CommonDir)
                 ELSE FromDir(Gathered(tasks[t].map, tasks[t].seen), files.game, 1,
                              GamePrefix, GameDir)} :
           tasks' = [tasks EXCEPT
                        ![t].map = g.map, ![t].seen = g.seen,
                        ![t].at = IF tasks[t].at = "common" THEN "game" ELSE "custom"]
    /\ UNCHANGED << soundPathCache, files, looked, atInvalidate, varsNotCatalog >>

\* Line 72: fs.readdir(customDir) reads the directory.
ReaddirCustom(t) ==
    /\ tasks[t].at = "custom"
    /\ tasks' = [tasks EXCEPT ![t].io = files.custom, ![t].at = "custom:read"]
    /\ UNCHANGED << soundPathCache, files, looked, atInvalidate, varsNotCatalog >>

\* Lines 73-84 once the readdir has settled, and the caller up to its next
\* await.
ResumeCustom(t) ==
    /\ tasks[t].at = "custom:read"
    /\ \E g \in {FromDir(Gathered(tasks[t].map, tasks[t].seen), tasks[t].io, 1,
                         CustomPrefix, CustomSoundsDir)} :
           /\ soundPathCache' = g.map
           /\ tasks' = [tasks EXCEPT ![t] = AfterBuild([@ EXCEPT !.seen = g.seen], g.map)]
    /\ UNCHANGED << files, looked, atInvalidate, varsNotCatalog >>

\* Line 182: applyCustomOrder reads order.json; line 184 returns.
ReadOrder(t) ==
    /\ tasks[t].at = "order"
    /\ \E r \in {applyCustomOrder(tasks[t].grouped, tasks[t].labels, files.order, 1)} :
           tasks' = [tasks EXCEPT ![t].grouped = r.grouped, ![t].labels = r.labels,
                                  ![t].at = "done"]
    /\ UNCHANGED << soundPathCache, files, looked, atInvalidate, varsNotCatalog >>

InvalidateSoundCache ==
    /\ soundPathCache' = Null
    /\ atInvalidate' = [called |-> TRUE, custom |-> CustomSoundFiles(files.custom)]
    /\ UNCHANGED << files, tasks, looked, varsNotCatalog >>

\* An acquisition writes a new file into the custom directory.
AddCustomFile ==
    /\ \E name \in AcquiredFiles \ CustomSoundFiles(files.custom) :
           files' = [files EXCEPT !.custom = IF IsArray(@)
                                              THEN Arr(Append(@.a, Sound(name)))
                                              ELSE Arr(<< Sound(name) >>)]
    /\ UNCHANGED << soundPathCache, tasks, looked, atInvalidate, varsNotCatalog >>

ResolveSoundPath ==
    /\ pc = "catalog"
    /\ \E soundId \in ResolvedIds :
           looked' = [soundId |-> soundId,
                      result |-> resolveSoundPath(soundPathCache, soundId)]
    /\ UNCHANGED << soundPathCache, files, tasks, atInvalidate, varsNotCatalog >>

BuildStep ==
    \E t \in 1..Len(tasks) :
        \/ ReadManifest(t)
        \/ ReadSubdir(t)
        \/ ReaddirCustom(t)
        \/ ResumeCustom(t)
        \/ ReadOrder(t)

NextCatalog ==
    \/ StartListing
    \/ BuildStep
    \/ InvalidateSoundCache
    \/ AddCustomFile
    \/ ResolveSoundPath

SpecCatalog == InitCatalog /\ [][NextCatalog]_vars

(***************************************************************************)
(* Properties of the catalog                                               *)
(***************************************************************************)

Built(t) == tasks[t].at \in {"order", "done"}

\* The path of the first discovered entry that yields id.
FirstDiscovered(seen, id) ==
    seen[CHOOSE i \in 1..Len(seen) :
             seen[i][1] = id /\ \A j \in 1..(i - 1) : seen[j][1] # id][2]

\* The id a file of the custom directory is listed under.
CustomIdOf(name) == CustomPrefix \o BaseNameWithout(name, ExtName(name))

IsPermutation(a, b) ==
    /\ Len(a) = Len(b)
    /\ \A x \in {a[i] : i \in 1..Len(a)} \cup {b[i] : i \in 1..Len(b)} :
           Cardinality({i \in 1..Len(a) : a[i] = x})
               = Cardinality({i \in 1..Len(b) : b[i] = x})

IdsWith(map, prefix) == SelectSeq(map.keys, LAMBDA id : StartsWith(id, prefix))

RingIds(map) ==
    SelectSeq(map.keys, LAMBDA id :
        \A prefix \in {CommonPrefix, GamePrefix, CustomPrefix} : ~StartsWith(id, prefix))

\* C12: resolveSoundPath throws the not-loaded error exactly when no index
\* is cached; with an index cached it throws the unknown-sound error exactly
\* for the ids that are not keys of the index and returns the indexed path
\* for the others; it leaves the cache and the builds as they are.
C12_ResolveByIndexKeys ==
    [][looked' # looked =>
           LET id == looked'.soundId
               r == looked'.result
           IN  /\ soundPathCache' = soundPathCache
               /\ tasks' = tasks
               /\ IF soundPathCache = Null
                  THEN ~r.ok /\ r.error = "Sounds not loaded"
                  ELSE IF ~InSeq(id, soundPathCache.keys)
                  THEN ~r.ok /\ r.error = "Unknown sound"
                  ELSE r.ok /\ r.value = soundPathCache.o[id]]_vars

\* C13: an index maps every id to the path of the first discovered entry
\* that yields the id.
C13_FirstDiscoveredWins ==
    \A t \in 1..Len(tasks) :
        Built(t) /\ ~tasks[t].hit =>
            \A id \in DOMAIN tasks[t].map.o :
                tasks[t].map.o[id] = Str(FirstDiscovered(tasks[t].seen, id))

\* C14: where no order override applies, listSoundsGrouped returns the ring
\* group in ascending order of the integer its digits form (ring1, ring2,
\* ring10 for these three ids, whatever the discovery order) and the common
\* and game groups in lexicographic order; each group holds the ids of its
\* namespace.
C14_CatalogOrdering ==
    \A t \in 1..Len(tasks) :
        tasks[t].at = "done" /\ tasks[t].op = "listSoundsGrouped" =>
            LET g == tasks[t].grouped
                map == tasks[t].map
            IN  /\ ~OverrideApplies(g, files.order, "ring") =>
                       /\ IsPermutation(g.ring, RingIds(map))
                       /\ \A i, j \in 1..Len(g.ring) :
                              i < j => RingNumber(g.ring[i]) <= RingNumber(g.ring[j])
                       /\ IsPermutation(g.ring, << Ring1, Ring2, Ring10 >>)
                              => g.ring = << Ring1, Ring2, Ring10 >>
                /\ ~OverrideApplies(g, files.order, "common") =>
                       /\ IsPermutation(g.common, IdsWith(map, CommonPrefix))
                       /\ \A i, j \in 1..Len(g.common) :
                              i < j => LexLess(g.common[i], g.common[j])
                /\ ~OverrideApplies(g, files.order, "game") =>
                       /\ IsPermutation(g.game, IdsWith(map, GamePrefix))
                       /\ \A i, j \in 1..Len(g.game) :
                              i < j => LexLess(g.game[i], g.game[j])

C14_Witness ==
    \E t \in 1..Len(tasks) :
        /\ tasks[t].at = "done"
        /\ tasks[t].op = "listSoundsGrouped"
        /\ files.order = Null
        /\ RingIds(tasks[t].map) = << Ring10, Ring2, Ring1 >>
        /\ tasks[t].grouped.ring = << Ring1, Ring2, Ring10 >>
        /\ IdsWith(tasks[t].map, CommonPrefix)
               = << CommonPrefix \o << "b", "e", "e", "p" >>,
                    CommonPrefix \o << "a", "l", "e", "r", "t" >> >>
        /\ tasks[t].grouped.common
               = << CommonPrefix \o << "a", "l", "e", "r", "t" >>,
                    CommonPrefix \o << "b", "e", "e", "p" >> >>

\* C20: a listing that finds an index cached returns it without reading
\* any file; a listing started after invalidateSoundCache returns an index
\* that holds the id of every sound file the custom directory held when
\* the cache was invalidated.
C20_ListingsSeeInvalidation ==
    \A t \in 1..Len(tasks) :
        /\ tasks[t].hit => tasks[t].seen = << >> /\ tasks[t].io = Null
        /\ tasks[t].at = "done" /\ tasks[t].after =>
               \A name \in tasks[t].mustSee :
                   CustomIdOf(name) \in DOMAIN tasks[t].map.o

(***************************************************************************)
(* String functions of the acquisition adapters (tts.js 24-44,             *)
(* import-sound.js 13-28)                                                  *)
(***************************************************************************)

\* String.prototype.trim, within the model's alphabet.
Trim(s) ==
    Then({i \in 1..Len(s) : ~IsWhitespace(s[i])}, LAMBDA solid :
        IF solid = {} THEN << >>
        ELSE SubSeq(s, CHOOSE i \in solid : \A j \in solid : i <= j,
                       CHOOSE i \in solid : \A j \in solid : j <= i))

\* String.prototype.slice(0, n)
SliceTo(s, n) == SubSeq(s, 1, IF Len(s) < n THEN Len(s) ELSE n)

LowerChar(c) == IF InRange(c, "A", "Z") THEN Ascii[CharCode(c) + 32 - 31] ELSE c

\* String.prototype.toLowerCase
ToLowerCase(s) == [i \in 1..Len(s) |-> LowerChar(s[i])]

\* s.replace(/[^...]+/g, '-'): every maximal run of characters outside the
\* class becomes one dash.
DashRuns(s, InClass(_)) ==
    SelectSeq([i \in 1..Len(s) |->
                   IF InClass(s[i]) THEN s[i]
                   ELSE IF i > 1 /\ ~InClass(s[i - 1]) THEN ""
                   ELSE "-"],
              LAMBDA c : c # "")

\* s.replace(/^-|-$/g, ''): one dash off each end.
StripOneDash(s) ==
    LET a == IF Len(s) > 0 /\ s[1] = "-" THEN SubSeq(s, 2, Len(s)) ELSE s
    IN  IF Len(a) > 0 /\ a[Len(a)] = "-" THEN SubSeq(a, 1, Len(a) - 1) ELSE a

\* s.replace(/^-+|-+$/g, ''): every dash off each end.
StripDashes(s) ==
    Then({i \in 1..Len(s) : s[i] # "-"}, LAMBDA solid :
        IF solid = {} THEN << >>
        ELSE SubSeq(s, CHOOSE i \in solid : \A j \in solid : i <= j,
                       CHOOSE i \in solid : \A j \in solid : j <= i))

SlugLength == 40

DefaultSlug ==
    << "c", "u", "s", "t", "o", "m" >>

ImportedSlug ==
    << "i", "m", "p", "o", "r", "t", "e", "d" >>

\* tts.js 24-31
slugify(text) ==
    LET slug == StripOneDash(DashRuns(ToLowerCase(SliceTo(Trim(text), SlugLength)),
                    LAMBDA c : InRange(c, "a", "z") \/ InRange(c, "0", "9")))
    IN  IF Len(slug) > 0 THEN slug ELSE DefaultSlug

\* import-sound.js 13-19
\* slugifyFilename that only lowers the case.
slugifyFilename_LowerOnly(name) ==
    Then(ToLowerCase(name), LAMBDA lower :
        IF Len(lower) > 0 THEN lower ELSE ImportedSlug)

slugifyFilename(name) ==
    Then(ToLowerCase(name), LAMBDA lower :
        Then(DashRuns(lower,
                 LAMBDA c : InRange(c, "a", "z") \/ InRange(c, "0", "9")
                                \/ c \in {"_", "-"}), LAMBDA dashed :
            Then(StripDashes(dashed), LAMBDA slug :
                IF Len(slug) > 0 THEN slug ELSE ImportedSlug)))

\* An unsigned 32-bit integer as two 16-bit halves.
Half == 65536
Word(hi, lo) == [hi |-> hi, lo |-> lo]

\* h = (h * 31 + s.charCodeAt(i)) >>> 0
HashStep(h, c) ==
    Then(h, LAMBDA was :
        Then(was.lo * 31 + CharCode(c), LAMBDA low :
            Word((was.hi * 31 + (low \div Half)) % Half, low % Half)))

\* The loop of lines 40-42 over characters i..j: the first half of them,
\* then the second half from the value the first half ended with.
RECURSIVE HashRange(_, _, _, _)
HashRange(s, i, j, h) ==
    IF i > j THEN h
    ELSE IF i = j THEN HashStep(h, s[i])
    ELSE Then(HashRange(s, i, (i + j) \div 2, h), LAMBDA half :
             HashRange(s, (i + j) \div 2 + 1, j, half))

\* The loop of lines 40-42 from character i on.
HashFrom(s, i, h) == HashRange(s, i, Len(s), h)

Base36Digits ==
    << "0", "1", "2", "3", "4", "5", "6", "7", "8", "9", "a", "b", "c", "d", "e", "f",
       "g", "h", "i", "j", "k", "l", "m", "n", "o", "p", "q", "r", "s", "t", "u", "v",
       "w", "x", "y", "z" >>

\* Number.prototype.toString(36) of an unsigned 32-bit integer.
RECURSIVE ToBase36(_, _)
ToBase36(h, acc) ==
    Then(h, LAMBDA left :
        IF left = Word(0, 0) THEN (IF acc = << >> THEN << "0" >> ELSE acc)
        ELSE Then((left.hi % 36) * Half + left.lo, LAMBDA rest :
                 ToBase36(Word(left.hi \div 36, rest \div 36),
                          << Base36Digits[(rest % 36) + 1] >> \o acc)))

HashLength == 6

\* tts.js 38-44, import-sound.js 22-28
shortHash(s) ==
    Then(s, LAMBDA str :
        Then(ToBase36(HashFrom(str, 1, Word(0, 0)), << >>), LAMBDA digits :
            SliceTo(digits, HashLength)))

(***************************************************************************)
(* Text-to-speech (tts.js 65-129)                                          *)
(*                                                                         *)
(* generateTts is a task: the part before its first await runs when it is  *)
(* called, and each await settles in a step of its own with one of the     *)
(* outcomes the file system or the endpoint can give.                      *)
(***************************************************************************)

\* Longest text the endpoint takes.
MaxTextLength == 200

Effect(op, what) == [op |-> op, what |-> what]

\* generateTts without the check of lines 106-108.
TtsTextCheck_NoLimit(text) ==
    IF Len(Trim(text)) = 0 THEN "Text cannot be empty" ELSE ""

\* Lines 101-108: the message of the error thrown, "" when none is.
TtsTextCheck(text) ==
    IF Len(Trim(text)) = 0 THEN "Text cannot be empty"
    ELSE IF Len(Trim(text)) > MaxTextLength
    THEN "Text must be 200 characters or less (Google TTS limit)"
    ELSE ""

\* Lines 113-115 and 126: `${baseSlug}-${shortHash(trimmed)}`
TtsUnique(text) == slugify(Trim(text)) \o << "-" >> \o shortHash(Trim(text))

TtsFileName(text) == TtsUnique(text) \o DotMp3

ClaudeIsReady ==
    << "C", "l", "a", "u", "d", "e", " ", "i", "s", " ", "r", "e", "a", "d", "y", "!" >>

Exclamations ==
    << "!", "!", "!" >>

\* The texts generateTts is called with: at and around both limits, bare and
\* wrapped in white space.
TtsTexts ==
    LET Cores == {Repeat("a", n) : n \in {0, 1, MaxTextLength - 1, MaxTextLength,
                                          MaxTextLength + 1}}
    IN  Cores
        \cup {<< " " >> \o core \o << " ", "\n" >> : core \in Cores}
        \cup {ClaudeIsReady, Exclamations, << "\t" >>}

\* A file of the custom directory is written: it is listed from then on and
\* holds the content.
WriteCustomFile(name, content) ==
    /\ files' = [files EXCEPT
                    !.custom = IF ~IsArray(@) THEN Arr(<< Sound(name) >>)
                               ELSE IF name \in CustomSoundFiles(@) THEN @
                               ELSE Arr(Append(@.a, Sound(name)))]
    /\ bytes' = SetKey(bytes, name, content)

\* fs.mkdir(dir, { recursive: true }) succeeds.
MakeCustomDir ==
    files' = [files EXCEPT !.custom = IF IsArray(@) THEN @ ELSE Arr(<< >>)]

InitTts ==
    /\ acqInput \in TtsTexts
    /\ acqAt = "start"
    /\ effects = << >>
    /\ acqResult = NotRun
    /\ imported = << >>
    /\ source = NoSource
    /\ bytes = NoBytes
    /\ soundPathCache = Null
    /\ files \in {NoFiles, [NoFiles EXCEPT !.custom = Arr(<< >>)]}
    /\ tasks = << >>
    /\ looked = NotRun
    /\ atInvalidate = [called |-> FALSE, custom |-> {}]
    /\ pc = "generateTts"
    /\ ReconcilerIdle
    /\ ValidatorIdle
    /\ HeapIdle
    /\ PreviewIdle
    /\ EditorIdle

varsNotAcquire ==
    << varsReconciler, varsValidator, varsHeap, pc, varsPreview, soundPathCache,
       tasks, looked, atInvalidate, varsEditor, imported >>

\* Lines 101-111: generateTts(textInput) up to await fs.mkdir.
CallGenerateTts ==
    /\ pc = "generateTts"
    /\ acqAt = "start"
    /\ IF TtsTextCheck(acqInput) # ""
       THEN /\ acqResult' = Throw(TtsTextCheck(acqInput), acqInput)
            /\ acqAt' = "done"
            /\ UNCHANGED effects
       ELSE /\ effects' = Append(effects, Effect("mkdir", CustomSoundsDir))
            /\ acqAt' = "mkdir"
            /\ UNCHANGED acqResult
    /\ UNCHANGED << acqInput, source, bytes, files, varsNotAcquire >>

\* Line 117: the timeout generateTts passes when its caller gives none.
DefaultTimeout == 15000

Called(op) == \E i \in 1..Len(effects) : effects[i].op = op

\* The timer of line 75 is set and has neither fired nor been cleared.
TimerPending == Called("setTimeout") /\ ~Called("abort") /\ ~Called("clearTimeout")

\* Lines 111-121 and 66-81: the mkdir settles; on success the timer is set
\* and the request is sent.
TtsMkdirSettles ==
    /\ pc = "generateTts"
    /\ acqAt = "mkdir"
    /\ \/ /\ MakeCustomDir
          /\ effects' = effects \o << Effect("setTimeout", DefaultTimeout),
                                      Effect("fetch", Trim(acqInput)) >>
          /\ acqAt' = "fetch"
          /\ UNCHANGED acqResult
       \/ /\ acqResult' = Throw("mkdir", CustomSoundsDir)
          /\ acqAt' = "done"
          /\ UNCHANGED << effects, files >>
    /\ UNCHANGED << acqInput, source, bytes, varsNotAcquire >>

\* The finally of lines 87-89 and the throw leaving generateTts.
TtsFetchFails(error) ==
    /\ acqResult' = Throw(error, Trim(acqInput))
    /\ effects' = Append(effects, Effect("clearTimeout", DefaultTimeout))
    /\ acqAt' = "done"

\* TtsHeadersArrive with the timer cleared as soon as the headers are in.
TtsHeadersArrive_ClearsTimer ==
    /\ pc = "generateTts"
    /\ acqAt = "fetch"
    /\ ~Called("abort")
    /\ \E outcome \in {"ok", "status", "network"} :
           IF outcome = "ok"
           THEN /\ effects' = effects \o << Effect("clearTimeout", DefaultTimeout),
                                            Effect("arrayBuffer", Trim(acqInput)) >>
                /\ acqAt' = "body"
                /\ UNCHANGED acqResult
           ELSE TtsFetchFails(outcome)
    /\ UNCHANGED << acqInput, source, bytes, files, varsNotAcquire >>

\* Lines 78-86: fetch settles: the headers arrive with a status that is ok
\* and the body is awaited, or with one that is not, or the endpoint cannot
\* be reached.
TtsHeadersArrive ==
    /\ pc = "generateTts"
    /\ acqAt = "fetch"
    /\ ~Called("abort")
    /\ \E outcome \in {"ok", "status", "network"} :
           IF outcome = "ok"
           THEN /\ effects' = Append(effects, Effect("arrayBuffer", Trim(acqInput)))
                /\ acqAt' = "body"
                /\ UNCHANGED acqResult
           ELSE TtsFetchFails(outcome)
    /\ UNCHANGED << acqInput, source, bytes, files, varsNotAcquire >>

\* Lines 86-89 and 122-123: res.arrayBuffer() settles: with the body, and
\* the file is written after the timer is cleared, or with a failure.
TtsBodyArrives ==
    /\ pc = "generateTts"
    /\ acqAt = "body"
    /\ ~Called("abort")
    /\ \E outcome \in {"ok", "network"} :
           IF outcome = "ok"
           THEN /\ effects' = effects
                       \o << Effect("clearTimeout", DefaultTimeout),
                             Effect("writeFile",
                                    PathJoin(CustomSoundsDir, TtsFileName(acqInput))) >>
                /\ acqAt' = "writeFile"
                /\ UNCHANGED acqResult
           ELSE TtsFetchFails(outcome)
    /\ UNCHANGED << acqInput, source, bytes, files, varsNotAcquire >>

\* Line 75: the timer expires while the headers or the body are awaited:
\* controller.abort().
TtsTimerFires ==
    /\ pc = "generateTts"
    /\ acqAt \in {"fetch", "body"}
    /\ TimerPending
    /\ effects' = Append(effects, Effect("abort", DefaultTimeout))
    /\ UNCHANGED << acqInput, acqAt, acqResult, source, bytes, files, varsNotAcquire >>

\* The aborted fetch() or arrayBuffer() rejects with an AbortError.
TtsAbortSettles ==
    /\ pc = "generateTts"
    /\ acqAt \in {"fetch", "body"}
    /\ Called("abort")
    /\ TtsFetchFails("abort")
    /\ UNCHANGED << acqInput, source, bytes, files, varsNotAcquire >>

\* Lines 123-128: the write to filePath (line 115) settles.
TtsWriteSettles ==
    /\ pc = "generateTts"
    /\ acqAt = "writeFile"
    /\ LET filePath == effects[Len(effects)].what
       IN  \/ /\ WriteCustomFile(BaseName(filePath), "speech")
              /\ acqResult' = Return([soundId |-> CustomPrefix
                                                    \o BaseNameWithout(filePath, DotMp3),
                                      filePath |-> filePath])
           \/ /\ acqResult' = Throw("writeFile", BaseName(filePath))
              /\ UNCHANGED << files, bytes >>
    /\ acqAt' = "done"
    /\ UNCHANGED << acqInput, effects, source, varsNotAcquire >>

NextTts ==
    \/ CallGenerateTts
    \/ TtsMkdirSettles
    \/ TtsHeadersArrive
    \/ TtsBodyArrives
    \/ TtsTimerFires
    \/ TtsAbortSettles
    \/ TtsWriteSettles

SpecTts == InitTts /\ [][NextTts]_vars

\* The calls of generateTts that do not depend on the endpoint take their
\* steps: validation runs, fs.mkdir and fs.writeFile settle, a pending timer
\* expires and an aborted request rejects.  Nothing is assumed of the
\* endpoint: the headers and the body may never arrive.
SpecTtsFair ==
    /\ SpecTts
    /\ WF_vars(CallGenerateTts)
    /\ WF_vars(TtsMkdirSettles)
    /\ WF_vars(TtsTimerFires)
    /\ WF_vars(TtsAbortSettles)
    /\ WF_vars(TtsWriteSettles)

\* Number of characters from the first to the last one that is no white
\* space.
TrimmedLength(s) ==
    LET solid == {i \in 1..Len(s) : s[i] \notin {" ", "\t", "\n"}}
    IN  IF solid = {} THEN 0
        ELSE (CHOOSE i \in solid : \A j \in solid : j <= i)
                 - (CHOOSE i \in solid : \A j \in solid : i <= j) + 1

InvalidTextErrors ==
    {"Text cannot be empty", "Text must be 200 characters or less (Google TTS limit)"}

\* C15: generateTts throws the invalid-input error when the text is empty
\* after trimming or longer than 200 characters after trimming, and then it
\* has issued no mkdir, no request and no write and the custom directory is
\* as it was; a text of trimmed length 1..200 passes the check, and the call
\* goes on to create the directory.
C15_InvalidTextRejectedFirst ==
    acqAt # "start" =>
        IF TrimmedLength(acqInput) = 0 \/ TrimmedLength(acqInput) > 200
        THEN /\ acqAt = "done"
             /\ ~acqResult.ok
             /\ acqResult.error \in InvalidTextErrors
             /\ effects = << >>
             /\ bytes = NoBytes
             /\ files.custom \in {Null, Arr(<< >>)}
        ELSE /\ Len(effects) >= 1
             /\ effects[1].op = "mkdir"
             /\ acqResult # NotRun /\ ~acqResult.ok
                    => acqResult.error \notin InvalidTextErrors

C15_Witness ==
    /\ Len(acqInput) = 204
    /\ TrimmedLength(acqInput) = 201
    /\ acqAt = "done"
    /\ ~acqResult.ok
    /\ acqResult.error = "Text must be 200 characters or less (Google TTS limit)"
    /\ effects = << >>

(***************************************************************************)
(* Import of an audio file (import-sound.js)                               *)
(*                                                                         *)
(* importSound is a task like generateTts.  What fs.stat and fs.readFile   *)
(* find at the resolved path is the variable source, which stays as it is  *)
(* during the call.  The paths given hold no "." or ".." segment, so       *)
(* path.normalize has only repeated separators to remove.                  *)
(***************************************************************************)

\* The character U+0000.
NulChar == "U+0000"

MAX_FILE_SIZE == 5 * 1024 * 1024

ALLOWED_EXT == << DotMp3, DotWav >>

HomeDir ==
    << "/", "h", "o", "m", "e", "/", "u" >>

WorkingDir ==
    << "/", "w", "o", "r", "k" >>

MySoundPath ==
    << "/", "h", "o", "m", "e", "/", "u", "/", "M", "y", " ", "S", "o", "u", "n", "d",
      "!", ".", "w", "a", "v" >>

TildeMySoundPath ==
    << "~", "/", "M", "y", " ", "S", "o", "u", "n", "d", "!", ".", "w", "a", "v" >>

ClipPath ==
    << "c", "l", "i", "p", ".", "m", "p", "3" >>

UpperSongPath ==
    << "/", "h", "o", "m", "e", "/", "u", "/", "S", "O", "N", "G", ".", "M", "P", "3" >>

NotesPath ==
    << "/", "h", "o", "m", "e", "/", "u", "/", "n", "o", "t", "e", "s", ".", "t", "x", "t" >>

NoExtPath ==
    << "/", "h", "o", "m", "e", "/", "u", "/", ".", "w", "a", "v" >>

MySoundHashedWav ==
    << "m", "y", "-", "s", "o", "u", "n", "d", "-", "1", "r", "9", "2", "e", "4", ".",
      "w", "a", "v" >>

NulPath ==
    << "/", "t", "m", "p", "/", "a", NulChar, ".", "w", "a", "v" >>

FileSource(size, content) == [kind |-> "file", size |-> size, content |-> content]
DirSource == [kind |-> "dir"]

\* path.normalize: one separator for every run of separators.
Normalize(p) ==
    Then({i \in 1..Len(p) : ~(p[i] = "/" /\ i > 1 /\ p[i - 1] = "/")}, LAMBDA keep :
        [k \in 1..Cardinality(keep) |->
            p[CHOOSE i \in keep : Cardinality({j \in keep : j <= i}) = k]])

\* Lines 40-47: the path the trimmed input stands for.
ResolvePath(inputPath) ==
    Then(Trim(inputPath), LAMBDA trimmed :
        Then(IF StartsWith(trimmed, << "~" >>)
             THEN PathJoin(HomeDir, SubSeq(trimmed, 2, Len(trimmed)))
             ELSE IF StartsWith(trimmed, << "/" >>) THEN trimmed
             ELSE PathJoin(WorkingDir, trimmed), LAMBDA expanded :
            Normalize(expanded)))

\* Lines 36-57: the message of the error validateSourcePath throws before it
\* awaits fs.stat, "" when it throws none.
PathCheck(inputPath) ==
    Then(Trim(inputPath), LAMBDA trimmed :
        IF Len(trimmed) = 0 THEN "Path cannot be empty"
        ELSE Then(ResolvePath(inputPath), LAMBDA resolvedPath :
                 IF InSeq(NulChar, resolvedPath) THEN "Invalid path"
                 ELSE Then(ToLowerCase(ExtName(resolvedPath)), LAMBDA ext :
                          IF ~InSeq(ext, ALLOWED_EXT)
                          THEN "Only .mp3 and .wav files are supported"
                          ELSE "")))

\* validateSourcePath without the check of lines 68-70.
StatCheck_NoEmptyCheck(stat) ==
    IF stat.kind # "file" THEN "Path must be a file, not a directory"
    ELSE IF stat.size > MAX_FILE_SIZE THEN "File too large (max 5MB)"
    ELSE ""

\* Lines 60-70: the message of the error thrown on what fs.stat returned.
StatCheck(stat) ==
    IF stat.kind # "file" THEN "Path must be a file, not a directory"
    ELSE IF stat.size > MAX_FILE_SIZE THEN "File too large (max 5MB)"
    ELSE IF stat.size = 0 THEN "File is empty"
    ELSE ""

\* String(attempt)
RECURSIVE ToDecimal(_)
ToDecimal(n) ==
    IF n < 10 THEN << Base36Digits[n + 1] >>
    ELSE ToDecimal(n \div 10) \o << Base36Digits[(n % 10) + 1] >>

ImportExt(inputPath) ==
    Then(ResolvePath(inputPath), LAMBDA resolvedPath :
        Then(ExtName(resolvedPath), LAMBDA ext : ToLowerCase(ext)))

\* Lines 72 and 89
ImportBaseSlug(inputPath) ==
    Then(ResolvePath(inputPath), LAMBDA resolvedPath :
        Then(ImportExt(inputPath), LAMBDA ext :
            Then(BaseNameWithout(resolvedPath, ext), LAMBDA baseName :
                Then(slugifyFilename(baseName), LAMBDA slug :
                    SliceTo(slug, SlugLength)))))

\* Lines 90 and 98: destName when fs.access is awaited for the n-th time,
\* n = 0 for the first.
DestName(inputPath, n) ==
    Then(n, LAMBDA tried :
        IF tried = 0 THEN ImportBaseSlug(inputPath) \o ImportExt(inputPath)
        ELSE ImportBaseSlug(inputPath) \o << "-" >>
                 \o shortHash(ResolvePath(inputPath) \o ToDecimal(tried - 1))
                 \o ImportExt(inputPath))

\* The successive calls of importSound on one source.
MaxImports == 3

\* The names fs.access finds in the custom directory.
CustomNames(custom) ==
    IF ~IsArray(custom) THEN {} ELSE {custom.a[i].name : i \in 1..Len(custom.a)}

Accesses == Cardinality({i \in 1..Len(effects) : effects[i].op = "access"})

\* The paths importSound is called with and what is found there.
ImportScenarios ==
    {<< p, FileSource(10 * 1024, "riff") >> :
         p \in {MySoundPath, << " " >> \o MySoundPath \o << " " >>, TildeMySoundPath,
                ClipPath, UpperSongPath, NulPath, NotesPath, NoExtPath, << >>,
                << " ", " " >>}}
    \cup {<< MySoundPath, FileSource(size, "id3") >> :
              size \in {0, 1, MAX_FILE_SIZE, MAX_FILE_SIZE + 1, 6 * 1024 * 1024}}
    \cup {<< MySoundPath, DirSource >>, << MySoundPath, NoSource >>,
          << NotesPath, DirSource >>, << UpperSongPath, FileSource(0, "") >>}

\* The custom directory importSound finds: none, an empty one, and ones that
\* hold the name it would take.
ImportCustomDirs ==
    {Null, Arr(<< >>), Arr(<< Sound(MySoundWav) >>),
     Arr(<< Sound(MySoundWav), Sound(MySoundHashedWav) >>)}

InitImport ==
    /\ \E sc \in ImportScenarios : acqInput = sc[1] /\ source = sc[2]
    /\ acqAt = "start"
    /\ effects = << >>
    /\ acqResult = NotRun
    /\ imported = << >>
    /\ soundPathCache = Null
    /\ \E custom \in ImportCustomDirs :
           /\ files = [NoFiles EXCEPT !.custom = custom]
           /\ bytes = [name \in CustomNames(custom) |-> "old"]
    /\ tasks = << >>
    /\ looked = NotRun
    /\ atInvalidate = [called |-> FALSE, custom |-> {}]
    /\ pc = "importSound"
    /\ ReconcilerIdle
    /\ ValidatorIdle
    /\ HeapIdle
    /\ PreviewIdle
    /\ EditorIdle

\* Lines 35-59 and 84: importSound(sourcePath) up to await fs.stat.
CallImportSound ==
    /\ pc = "importSound"
    /\ acqAt = "start"
    /\ IF PathCheck(acqInput) # ""
       THEN /\ acqResult' = Throw(PathCheck(acqInput), acqInput)
            /\ acqAt' = "done"
            /\ UNCHANGED effects
       ELSE /\ effects' = Append(effects, Effect("stat", ResolvePath(acqInput)))
            /\ acqAt' = "stat"
            /\ UNCHANGED acqResult
    /\ UNCHANGED << acqInput, source, bytes, files, varsNotAcquire >>

\* Lines 59-87: fs.stat settles; a source that passes is followed by mkdir.
ImportStatSettles ==
    /\ pc = "importSound"
    /\ acqAt = "stat"
    /\ IF source.kind = "missing"
       THEN /\ acqResult' = Throw("ENOENT", ResolvePath(acqInput))
            /\ acqAt' = "done"
            /\ UNCHANGED effects
       ELSE IF StatCheck(source) # ""
       THEN /\ acqResult' = Throw(StatCheck(source), ResolvePath(acqInput))
            /\ acqAt' = "done"
            /\ UNCHANGED effects
       ELSE /\ effects' = Append(effects, Effect("mkdir", CustomSoundsDir))
            /\ acqAt' = "mkdir"
            /\ UNCHANGED acqResult
    /\ UNCHANGED << acqInput, source, bytes, files, varsNotAcquire >>

\* Lines 87-96: the mkdir settles; on success the first name is tried.
ImportMkdirSettles ==
    /\ pc = "importSound"
    /\ acqAt = "mkdir"
    /\ \/ /\ MakeCustomDir
          /\ effects' = Append(effects,
                 Effect("access", PathJoin(CustomSoundsDir, DestName(acqInput, 0))))
          /\ acqAt' = "access"
          /\ UNCHANGED acqResult
       \/ /\ acqResult' = Throw("mkdir", CustomSoundsDir)
          /\ acqAt' = "done"
          /\ UNCHANGED << effects, files >>
    /\ UNCHANGED << acqInput, source, bytes, varsNotAcquire >>

\* ImportAccessSettles taking the name whether or not it is free.
ImportAccessSettles_NoCheck ==
    /\ pc = "importSound"
    /\ acqAt = "access"
    /\ effects' = Append(effects, Effect("readFile", ResolvePath(acqInput)))
    /\ acqAt' = "readFile"
    /\ UNCHANGED << acqInput, acqResult, source, bytes, files, varsNotAcquire >>

\* Lines 94-108: fs.access settles: a name that is taken is followed by the
\* next one, a free one by the read of the source.
ImportAccessSettles ==
    /\ pc = "importSound"
    /\ acqAt = "access"
    /\ IF BaseName(effects[Len(effects)].what) \in CustomNames(files.custom)
       THEN /\ effects' = Append(effects,
                   Effect("access", PathJoin(CustomSoundsDir, DestName(acqInput, Accesses))))
            /\ UNCHANGED acqAt
       ELSE /\ effects' = Append(effects, Effect("readFile", ResolvePath(acqInput)))
            /\ acqAt' = "readFile"
    /\ UNCHANGED << acqInput, acqResult, source, bytes, files, varsNotAcquire >>

\* Lines 108-109: the read settles; on success the buffer is written to the
\* name found free.
ImportReadSettles ==
    /\ pc = "importSound"
    /\ acqAt = "readFile"
    /\ \/ /\ effects' = Append(effects,
                 Effect("writeFile", effects[Len(effects) - 1].what))
          /\ acqAt' = "writeFile"
          /\ UNCHANGED acqResult
       \/ /\ acqResult' = Throw("readFile", ResolvePath(acqInput))
          /\ acqAt' = "done"
          /\ UNCHANGED effects
    /\ UNCHANGED << acqInput, source, bytes, files, varsNotAcquire >>

\* Lines 109-112: the write settles.
ImportWriteSettles ==
    /\ pc = "importSound"
    /\ acqAt = "writeFile"
    /\ LET destPath == effects[Len(effects)].what
       IN  \/ /\ WriteCustomFile(BaseName(destPath), source.content)
              /\ acqResult' =
                     Return([soundId |-> CustomPrefix
                                           \o BaseNameWithout(destPath, ImportExt(acqInput)),
                             filePath |-> destPath])
           \/ /\ acqResult' = Throw("writeFile", destPath)
              /\ UNCHANGED << files, bytes >>
    /\ acqAt' = "done"
    /\ UNCHANGED << acqInput, effects, source, varsNotAcquire >>

\* The caller imports the same source once more.
ImportSoundAgain ==
    /\ pc = "importSound"
    /\ acqAt = "done"
    /\ acqResult.ok
    /\ Len(imported) + 1 < MaxImports
    /\ imported' = Append(imported, acqResult.value)
    /\ acqAt' = "start"
    /\ effects' = << >>
    /\ acqResult' = NotRun
    /\ UNCHANGED << acqInput, source, bytes, files, varsReconciler, varsValidator,
                    varsHeap, pc, varsPreview, soundPathCache, tasks, looked,
                    atInvalidate, varsEditor >>

NextImport ==
    \/ CallImportSound
    \/ ImportStatSettles
    \/ ImportMkdirSettles
    \/ ImportAccessSettles
    \/ ImportReadSettles
    \/ ImportWriteSettles
    \/ ImportSoundAgain

SpecImport == InitImport /\ [][NextImport]_vars

\* The awaits of importSound settle: fs.stat, fs.mkdir, fs.access,
\* fs.readFile and fs.writeFile each complete or fail.
SpecImportFair ==
    /\ SpecImport
    /\ WF_vars(CallImportSound)
    /\ WF_vars(ImportStatSettles)
    /\ WF_vars(ImportMkdirSettles)
    /\ WF_vars(ImportAccessSettles)
    /\ WF_vars(ImportReadSettles)
    /\ WF_vars(ImportWriteSettles)

\* The extension of a path, letters in lower case: what follows the last dot
\* of its last segment, the dot included; a segment that begins with its
\* only dot has none.
SuffixOf(p) ==
    LET dots == {i \in 1..Len(p) : p[i] = "." /\ \A j \in i..Len(p) : p[j] # "/"}
        last == CHOOSE i \in dots : \A j \in dots : j <= i
    IN  IF dots = {} \/ last = 1 \/ p[last - 1] = "/" THEN << >>
        ELSE ToLowerCase(SubSeq(p, last, Len(p)))

FiveMiB == 5242880

\* The sources the import has to reject.
InvalidSource ==
    \/ TrimmedLength(acqInput) = 0
    \/ \E i \in 1..Len(acqInput) : acqInput[i] = NulChar
    \/ SuffixOf(Trim(acqInput)) \notin {DotMp3, DotWav}
    \/ source.kind = "dir"
    \/ source.kind = "file" /\ source.size = 0
    \/ source.kind = "file" /\ source.size > FiveMiB

ImportErrors ==
    {"Path cannot be empty", "Invalid path", "Only .mp3 and .wav files are supported",
     "Path must be a file, not a directory", "File too large (max 5MB)", "File is empty"}

Base36Chars == {Base36Digits[i] : i \in 1..Len(Base36Digits)}

\* custom/my-sound, or custom/my-sound-<hash> with a hash of 1 to 6 digits
\* in base 36.
IsMySoundId(id) ==
    /\ StartsWith(id, CustomMySound)
    /\ \/ Len(id) = Len(CustomMySound)
       \/ /\ id[Len(CustomMySound) + 1] = "-"
          /\ Len(id) - Len(CustomMySound) - 1 \in 1..6
          /\ \A i \in Len(CustomMySound) + 2..Len(id) : id[i] \in Base36Chars

\* C16: importSound fails on an invalid source (empty path, null byte,
\* extension other than .mp3/.wav whatever the case, a directory, a file of
\* 0 bytes with the empty-file error, a file of more than 5 MiB with the
\* too-large error) having issued no mkdir and no write, and no step of such
\* a call changes the custom directory or a file in it; a valid source is
\* never refused by a validation error, and when the call returns, the
\* destination holds the content of the source, the id is custom/<name of
\* the destination without extension>, and for My Sound!.wav the id is
\* custom/my-sound with an optional hash suffix.
C16_ImportValidatesThenCopies ==
    /\ [](acqAt = "done" =>
            /\ InvalidSource =>
                 /\ ~acqResult.ok
                 /\ acqResult.error \in ImportErrors
                 /\ \A i \in 1..Len(effects) : effects[i].op \notin {"mkdir", "writeFile"}
                 /\ (PathCheck(acqInput) = "" /\ source.kind = "file" /\ source.size = 0)
                        => acqResult.error = "File is empty"
                 /\ (PathCheck(acqInput) = "" /\ source.kind = "file"
                         /\ source.size > FiveMiB)
                        => acqResult.error = "File too large (max 5MB)"
            /\ (~InvalidSource /\ ~acqResult.ok) => acqResult.error \notin ImportErrors
            /\ acqResult.ok =>
                 /\ ~InvalidSource
                 /\ StartsWith(acqResult.value.filePath, CustomSoundsDir \o << "/" >>)
                 /\ LET name == SubSeq(acqResult.value.filePath, Len(CustomSoundsDir) + 2,
                                       Len(acqResult.value.filePath))
                    IN  /\ name \in DOMAIN bytes
                        /\ bytes[name] = source.content
                        /\ name \in CustomSoundFiles(files.custom)
                        /\ name = SubSeq(acqResult.value.soundId, Len(CustomPrefix) + 1,
                                         Len(acqResult.value.soundId))
                                      \o SuffixOf(Trim(acqInput))
                 /\ ResolvePath(acqInput) = MySoundPath
                        => IsMySoundId(acqResult.value.soundId))
    /\ [][(files' # files \/ bytes' # bytes) => ~InvalidSource]_vars
    /\ [][\A name \in DOMAIN bytes : name \in DOMAIN bytes' /\ bytes'[name] = bytes[name]]_vars

C16_Witness ==
    /\ acqInput = MySoundPath
    /\ source = FileSource(10240, "riff")
    /\ acqAt = "done"
    /\ acqResult.ok
    /\ acqResult.value.soundId = CustomPrefix \o SubSeq(MySoundHashedWav, 1, 15)
    /\ bytes[MySoundHashedWav] = "riff"
    /\ bytes[MySoundWav] = "old"

(***************************************************************************)
(* The interactive editor (cli.js 95-291, hooks.js 29-45)                  *)
(*                                                                         *)
(* interactiveSetup holds the document read in settings and the mappings   *)
(* in mappings, in the order of Object.entries.  Each prompt is a position *)
(* and each answer of the operator a step.  The prompts that pick a        *)
(* category and a sound are one step that yields the id picked; an id      *)
(* comes from the catalog or from generateTts.  The events offered are     *)
(* two of HOOK_EVENTS.  A document is written as the value                 *)
(* JSON.stringify encodes.                                                 *)
(***************************************************************************)

\* In-memory edits in one run of the editor.
MaxEdits == 3

ApplyChoice ==
    << "_", "_", "a", "p", "p", "l", "y", "_", "_" >>

RemoveAllChoice ==
    << "_", "_", "r", "e", "m", "o", "v", "e", "_", "a", "l", "l", "_", "_" >>

ExitChoice ==
    << "_", "_", "e", "x", "i", "t", "_", "_" >>

SpacedCustomId ==
    << "c", "u", "s", "t", "o", "m", "/", "m", "y", " ", "s", "o", "u", "n", "d" >>

ReadyTtsId ==
    << "c", "u", "s", "t", "o", "m", "/", "c", "l", "a", "u", "d", "e", "-", "i", "s",
      "-", "r", "e", "a", "d", "y", "-", "1", "d", "1", "c", "k", "o" >>

JsonFile(doc) == [kind |-> "json", doc |-> doc]
NotJsonFile == [kind |-> "garbage", doc |-> Undefined]
UnreadableFile == [kind |-> "unreadable", doc |-> Undefined]
TruncatedFile == [kind |-> "truncated", doc |-> Undefined]
EmptyFile == [kind |-> "empty", doc |-> Undefined]
DirectoryFile == [kind |-> "directory", doc |-> Undefined]
\* A component of the path of the file is itself a file.
NotDirFile == [kind |-> "notdir", doc |-> Undefined]

EditorEvents == {EvStop, EvSessionEnd}

\* The ids the sound prompts yield: from the manifest, from common/, from a
\* file "my sound.mp3" of the custom directory, and from generateTts.
EditorSoundIds == {Ring1, CommonPop, SpacedCustomId, ReadyTtsId}

\* Object.entries of an object whose keys are event names.
EntriesOf(obj) ==
    LET keys == SelectSeq(HOOK_EVENTS, LAMBDA e : e \in DOMAIN obj.o)
    IN  [i \in 1..Len(keys) |-> << keys[i], obj.o[keys[i]] >>]

\* mappings[eventName] = soundId
SetEntry(entries, k, v) ==
    IF \E i \in 1..Len(entries) : entries[i][1] = k
    THEN [i \in 1..Len(entries) |-> IF entries[i][1] = k THEN << k, v >> ELSE entries[i]]
    ELSE Append(entries, << k, v >>)

\* delete mappings[eventName]
DeleteEntry(entries, k) == SelectSeq(entries, LAMBDA en : en[1] # k)

\* err.code of what fs.readFile or JSON.parse throws: a SyntaxError has no
\* code.
ErrCode(file) ==
    CASE file.kind = "absent" -> "ENOENT"
      [] file.kind = "notdir" -> "ENOTDIR"
      [] file.kind = "unreadable" -> "EACCES"
      [] file.kind = "directory" -> "EISDIR"
      [] OTHER -> "undefined"

\* readJsonIfExists that takes every failure for an empty document.
readJsonIfExists_AllAsEmpty(file) ==
    IF file.kind = "json" THEN Return(file.doc)
    ELSE Return(Obj(NoProps))

\* readJsonIfExists: the value, or the failure.
readJsonIfExists(file) ==
    IF file.kind = "json" THEN Return(file.doc)
    ELSE IF ErrCode(file) \in {"ENOENT", "ENOTDIR"} THEN Return(Obj(NoProps))
    ELSE Throw(file.kind, Undefined)

\* The documents found in the settings file.
\* Settings whose Stop hook is managed and names a sound the catalog lacks:
\* an id no file bears, one that is a property every object inherits, and
\* one in a handler that a second managed handler follows.
DanglingDocs ==
    { Obj(K_hooks :> Obj(EvStop :> Arr(<< ManagedGroup(Str(CommandTemplate(EvStop, id))) >>))) :
          id \in {UnknownId, ConstructorId} }
    \cup { Obj(K_hooks :> Obj(EvStop :>
                Arr(<< ManagedGroup(Str(CommandTemplate(EvStop, UnknownId))),
                       ManagedGroup(Str(CommandTemplate(EvStop, Ring1))) >>))) }

EditorDocs == (FewSettingsDocs \ {Undefined}) \cup DanglingDocs

InitEditor ==
    /\ disk \in {NoFile, NotDirFile, NotJsonFile, EmptyFile, UnreadableFile, DirectoryFile}
                \cup {JsonFile(d) : d \in EditorDocs}
    /\ writes = << >>
    /\ edAt = "scope"
    /\ chosen = << >>
    /\ edits = 0
    /\ settings = Undefined
    /\ mappings = << >>
    /\ first = NotRun
    /\ produced = << >>
    /\ second = NotRun
    /\ extracted = NotRun
    /\ pc = "editor"
    /\ ValidatorIdle
    /\ HeapIdle
    /\ PreviewIdle
    /\ CatalogIdle
    /\ AcquireIdle

varsNotEditor ==
    << produced, second, extracted, varsValidator, varsHeap, pc, varsPreview,
       varsCatalog, varsAcquire >>

\* Lines 98-110: the scope is picked, or the prompt is cancelled.
ChooseScope ==
    /\ pc = "editor"
    /\ edAt = "scope"
    /\ edAt' \in {"read", "exited"}
    /\ UNCHANGED << settings, mappings, first, disk, writes, chosen, edits, varsNotEditor >>

\* Lines 115-126: the file is read and the mappings taken from it.
ReadSettings ==
    /\ pc = "editor"
    /\ edAt = "read"
    /\ IF readJsonIfExists(disk).ok
       THEN /\ settings' = readJsonIfExists(disk).value
            /\ mappings' = EntriesOf(getExistingManagedMappings(settings'))
            /\ edAt' = "menu"
       ELSE /\ edAt' = "readFailed"
            /\ UNCHANGED << settings, mappings >>
    /\ UNCHANGED << first, disk, writes, chosen, edits, varsNotEditor >>

\* Lines 194-197: Exit, or the main menu is cancelled.
MenuExit ==
    /\ pc = "editor"
    /\ edAt = "menu"
    /\ chosen' = ExitChoice
    /\ edAt' = "exited"
    /\ UNCHANGED << settings, mappings, first, disk, writes, edits, varsNotEditor >>

\* Remove all that writes the settings at once.
MenuRemoveAll_Writes ==
    /\ pc = "editor"
    /\ edAt = "menu"
    /\ edits < MaxEdits
    /\ chosen' = RemoveAllChoice
    /\ mappings' = << >>
    /\ edits' = edits + 1
    /\ writes' = Append(writes, applyMappingsToSettings(settings, << >>).value)
    /\ UNCHANGED << settings, first, disk, edAt, varsNotEditor >>

\* Lines 199-203: Remove all.
MenuRemoveAll ==
    /\ pc = "editor"
    /\ edAt = "menu"
    /\ edits < MaxEdits
    /\ chosen' = RemoveAllChoice
    /\ mappings' = << >>
    /\ edits' = edits + 1
    /\ UNCHANGED << settings, first, disk, writes, edAt, varsNotEditor >>

\* Lines 205-209: Apply, up to the first await of writeJson.
MenuApply ==
    /\ pc = "editor"
    /\ edAt = "menu"
    /\ chosen' = ApplyChoice
    /\ first' = applyMappingsToSettings(settings, mappings)
    /\ IF first'.ok
       THEN settings' = first'.value /\ edAt' = "mkdir"
       ELSE edAt' = "threw" /\ UNCHANGED settings
    /\ UNCHANGED << mappings, disk, writes, edits, varsNotEditor >>

\* Line 215: an event is picked.
MenuPick ==
    /\ pc = "editor"
    /\ edAt = "menu"
    /\ chosen' \in EditorEvents
    /\ edAt' = "event"
    /\ UNCHANGED << settings, mappings, first, disk, writes, edits, varsNotEditor >>

\* Lines 226 and 241: Back, or a prompt for the event is cancelled.
EventBack ==
    /\ pc = "editor"
    /\ edAt = "event"
    /\ edAt' = "menu"
    /\ UNCHANGED << settings, mappings, first, disk, writes, chosen, edits,
                    varsNotEditor >>

\* Lines 228-231: Disable.
EventDisable ==
    /\ pc = "editor"
    /\ edAt = "event"
    /\ edits < MaxEdits
    /\ mappings' = DeleteEntry(mappings, chosen)
    /\ edits' = edits + 1
    /\ edAt' = "menu"
    /\ UNCHANGED << settings, first, disk, writes, chosen, varsNotEditor >>

\* Lines 233-288: Enable, and a sound is picked or created.
EventEnable ==
    /\ pc = "editor"
    /\ edAt = "event"
    /\ edits < MaxEdits
    /\ \E soundId \in EditorSoundIds :
           mappings' = SetEntry(mappings, chosen, Str(soundId))
    /\ edits' = edits + 1
    /\ edAt' = "menu"
    /\ UNCHANGED << settings, first, disk, writes, chosen, varsNotEditor >>

\* hooks.js 42-44: the mkdir of writeJson settles; on success fs.writeFile
\* is called with the text of the document.
WriteMkdirSettles ==
    /\ pc = "editor"
    /\ edAt = "mkdir"
    /\ \/ /\ disk.kind # "notdir"
          /\ writes' = Append(writes, settings)
          /\ edAt' = "writeFile"
       \/ /\ edAt' = "threw"
          /\ UNCHANGED writes
    /\ UNCHANGED << settings, mappings, first, disk, chosen, edits, varsNotEditor >>

\* hooks.js 44, cli.js 210-212: fs.writeFile settles.  A write that fails
\* leaves the file as it was or cut short.
WriteFileSettles ==
    /\ pc = "editor"
    /\ edAt = "writeFile"
    /\ \/ /\ disk' = JsonFile(writes[Len(writes)])
          /\ edAt' = "saved"
       \/ /\ disk' \in {disk, TruncatedFile}
          /\ edAt' = "threw"
    /\ UNCHANGED << settings, mappings, first, writes, chosen, edits, varsNotEditor >>

NextEditor ==
    \/ ChooseScope
    \/ ReadSettings
    \/ MenuExit
    \/ MenuRemoveAll
    \/ MenuApply
    \/ MenuPick
    \/ EventBack
    \/ EventDisable
    \/ EventEnable
    \/ WriteMkdirSettles
    \/ WriteFileSettles

SpecEditor == InitEditor /\ [][NextEditor]_vars

\* The run ended without a completed Apply: the operator left, the file
\* could not be read, or reconcile threw.
EndedWithoutApply ==
    \/ edAt \in {"exited", "readFailed"}
    \/ edAt = "threw" /\ first # NotRun /\ ~first.ok

\* C17: in a run of the editor at most one document is handed to
\* fs.writeFile; it is handed over only after Apply was chosen and
\* applyMappingsToSettings returned, and it is the document returned for
\* the file's content and the mappings of that moment; the file changes
\* only in the step that completes this write; and a run that ends by exit,
\* cancel, a failed read or a throw of applyMappingsToSettings has issued
\* no write, whatever edits came before.
C17_WriteOnlyOnApply ==
    /\ [](/\ Len(writes) <= 1
          /\ writes # << >> =>
                /\ chosen = ApplyChoice
                /\ first.ok
                /\ writes[1] = first.value
                /\ edAt \in {"writeFile", "saved", "threw"}
                /\ edAt = "writeFile" =>
                       writes[1] = applyMappingsToSettings(readJsonIfExists(disk).value,
                                                           mappings).value
          /\ EndedWithoutApply => writes = << >>
          /\ edAt = "saved" => disk = JsonFile(writes[1]))
    /\ [][disk' # disk => edAt = "writeFile" /\ writes # << >>]_vars
    /\ [][writes' # writes => edAt = "mkdir" /\ chosen = ApplyChoice /\ first.ok]_vars

C17_Witness ==
    /\ edAt = "threw"
    /\ first # NotRun
    /\ ~first.ok
    /\ edits = 3
    /\ Len(mappings) = 2
    /\ writes = << >>
    /\ disk.kind = "json"
    /\ Get(disk.doc, K_hooks) # Undefined

(***************************************************************************)
(* getExistingManagedMappings on documents edited by hand                  *)
(* (hooks.js 78-107)                                                       *)
(***************************************************************************)

UnmarkedCommand ==
    << "a", "f", "p", "l", "a", "y", " ", "-", "-", "s", "o", "u", "n", "d", " ", "r",
      "i", "n", "g", "2" >>

\* Handlers found under an event of a document edited by hand: managed ones
\* for two sounds, one whose token after --sound is no sound id, one with
\* the marker alone, a user's own with --sound and no marker, and null.
ExtractHandlers(e) ==
    { ManagedHandler(Str(CommandTemplate(e, Ring1))),
      ManagedHandler(Str(CommandTemplate(e, CommonPop))),
      ManagedHandler(Str(CommandTemplate(e, Injection))),
      Handler(HandEditedCommand),
      Handler(UnmarkedCommand),
      Null }

\* A managed handler between one whose command is a number and a string.
OddHandlers(e) ==
    << Obj(K_command :> Num(5)), ManagedHandler(Str(CommandTemplate(e, Ring1))),
       Str(CommandTemplate(e, CommonPop)) >>

\* Groups: with a list of at most n handlers, without one, and values that
\* are no object.
ExtractGroups(e, n) ==
    {GroupOf(hs) : hs \in SeqsUpTo(ExtractHandlers(e), n)}
        \cup {BareGroup, Null, Str(ForeignCommand)}

\* At most k groups that hold at most n handlers together.
RECURSIVE ExtractGroupSeqs(_, _, _)
ExtractGroupSeqs(e, k, n) ==
    {<< >>} \cup
        (IF k = 0 THEN {}
         ELSE UNION {{<< g >> \o rest :
                         rest \in ExtractGroupSeqs(e, k - 1, n - HandlerCount(<< g >>, 1))} :
                     g \in ExtractGroups(e, n)})

ExtractEventValues(e) == {Arr(gs) : gs \in ExtractGroupSeqs(e, MaxGroups, MaxHandlers)}

\* The documents getExistingManagedMappings is called with.
ExtractDocs ==
    {Obj(K_hooks :> Obj(EvStop :> v)) :
         v \in ExtractEventValues(EvStop) \cup {Arr(<< GroupOf(OddHandlers(EvStop)) >>)}}
        \cup {Obj(K_hooks :> Obj((EvStop :> v) @@ rest)) :
                  v \in {Arr(<< GroupOf(<< ManagedHandler(Str(CommandTemplate(EvStop, Ring1))) >>) >>),
                         Str(CommandTemplate(EvStop, Ring1))},
                  rest \in RestParts \ {NoProps}}
        \cup {Obj(K_hooks :> h) :
                  h \in {Arr(<< Arr(<< GroupOf(<< ManagedHandler(Str(CommandTemplate(EvStop, Ring1))) >>) >>) >>),
                         Str(CommandTemplate(EvStop, Ring1)), Num(5), Null, Bool(TRUE)}}
        \cup {Obj(NoProps), Null, Undefined, Str(ForeignCommand)}

\* The loop over handlers, reading the heap.
RECURSIVE HeapManagedIdsOfHandlers(_, _, _)
HeapManagedIdsOfHandlers(h, handlers, i) ==
    IF i > Len(h[handlers.addr].a) THEN << >>
    ELSE LET cmd == HeapGet(h, h[handlers.addr].a[i], K_command)
             soundId == extractManagedSoundId(IF IsRef(cmd) THEN Undefined ELSE cmd)
             keep == /\ ~IsRef(cmd)
                     /\ isManagedCommand(cmd)
                     /\ Truthy(soundId)
                     /\ SAFE_SOUND_ID(soundId.s)
                     /\ Len(soundId.s) <= MaxSoundIdLength
         IN  (IF keep THEN << soundId >> ELSE << >>)
                 \o HeapManagedIdsOfHandlers(h, handlers, i + 1)

\* The loop over groups, reading the heap.
RECURSIVE HeapManagedIdsOfGroups(_, _, _)
HeapManagedIdsOfGroups(h, groups, i) ==
    IF i > Len(h[groups.addr].a) THEN << >>
    ELSE LET handlers == HeapGet(h, h[groups.addr].a[i], K_hooks)
         IN  (IF RefIsArray(h, handlers) THEN HeapManagedIdsOfHandlers(h, handlers, 1)
              ELSE << >>)
                 \o HeapManagedIdsOfGroups(h, groups, i + 1)

\* map[eventName] = soundId, for each id in turn.
RECURSIVE AssignEach(_, _, _, _, _)
AssignEach(h, map, eventName, ids, i) ==
    IF i > Len(ids) THEN h
    ELSE AssignEach(WriteProp(h, map, eventName, ids[i]), map, eventName, ids, i + 1)

\* The loop over Object.entries(hooks).
RECURSIVE HeapScanEvents(_, _, _, _, _)
HeapScanEvents(h, hooks, map, keys, i) ==
    IF i > Len(keys) THEN h
    ELSE LET groups == h[hooks.addr].o[keys[i]]
         IN  IF ~RefIsArray(h, groups) \/ ~InSeq(keys[i], HOOK_EVENTS)
             THEN HeapScanEvents(h, hooks, map, keys, i + 1)
             ELSE HeapScanEvents(
                      AssignEach(h, map, keys[i], HeapManagedIdsOfGroups(h, groups, 1), 1),
                      hooks, map, keys, i + 1)

\* getExistingManagedMappings on the heap: the heap after the call and the
\* reference returned.  An array has no key that is an event name.
HeapGetExistingManagedMappings(h, s) ==
    Then(New(h, ObjectCell(NoProps)), LAMBDA map :
        LET hooks == HeapGet(map.heap, s, K_hooks)
        IN  IF ~RefIsObject(map.heap, hooks)
            THEN [heap |-> map.heap, result |-> Return(map.ref)]
            ELSE [heap |-> HeapScanEvents(map.heap, hooks, map.ref,
                                          KeysInOrder(DOMAIN map.heap[hooks.addr].o), 1),
                  result |-> Return(map.ref)])

InitExtract ==
    /\ settings \in ExtractDocs
    /\ \E input \in {Alloc(<< >>, settings)} :
           /\ heap = input.heap
           /\ roots = [settings |-> input.ref, mappings |-> Undefined]
    /\ returned = NotRun
    /\ mappings = << >>
    /\ first = NotRun
    /\ produced = << >>
    /\ second = NotRun
    /\ extracted = NotRun
    /\ pc = "extract:start"
    /\ ValidatorIdle
    /\ LaterIdle

\* getExistingManagedMappings(settings)
ExtractMappings ==
    /\ pc = "extract:start"
    /\ extracted' = Return(getExistingManagedMappings(settings))
    /\ pc' = "extract:heap"
    /\ UNCHANGED << settings, mappings, first, produced, second, varsValidator,
                    varsHeap, varsLater >>

\* The same call on the heap the document lives in.
ExtractOnHeap ==
    /\ pc = "extract:heap"
    /\ \E call \in {HeapGetExistingManagedMappings(heap, roots.settings)} :
           /\ heap' = call.heap
           /\ returned' = call.result
    /\ pc' = "extract:done"
    /\ UNCHANGED << roots, varsReconciler, varsValidator, varsLater >>

NextExtract == ExtractMappings \/ ExtractOnHeap

SpecExtract == InitExtract /\ [][NextExtract]_vars

\* The handlers of the groups of hooks[e], by position: group, then handler.
HandlerPositions(groups) ==
    {<< g, i >> \in (1..Len(groups)) \X (1..(MaxHandlers + 1)) :
        /\ IsArray(Get(groups[g], K_hooks))
        /\ i <= Len(Get(groups[g], K_hooks).a)}

HandlerAt(groups, p) == Get(groups[p[1]], K_hooks).a[p[2]]

\* The handler carries the marker and a token after --sound that is a valid
\* sound id.
Qualifies(handler) ==
    LET cmd == Get(handler, K_command)
    IN  /\ IsString(cmd)
        /\ Includes(cmd.s, MANAGED_TOKEN)
        /\ extractManagedSoundId(cmd) # Null
        /\ validateSoundId(extractManagedSoundId(cmd)).ok

Before(p, q) == p[1] < q[1] \/ (p[1] = q[1] /\ p[2] < q[2])

EventNames == {HOOK_EVENTS[i] : i \in 1..Len(HOOK_EVENTS)}

\* The entries the extraction is to return for a document.
ExpectedMappings(doc) ==
    LET hooks == Get(doc, K_hooks)
        Good(e) == {p \in HandlerPositions(hooks.o[e].a) :
                       Qualifies(HandlerAt(hooks.o[e].a, p))}
        keys == IF IsObject(hooks)
                THEN {e \in DOMAIN hooks.o \cap EventNames :
                         IsArray(hooks.o[e]) /\ Good(e) # {}}
                ELSE {}
    IN  [e \in keys |->
            LET last == CHOOSE p \in Good(e) : \A q \in Good(e) : q = p \/ Before(q, p)
            IN  extractManagedSoundId(Get(HandlerAt(hooks.o[e].a, last), K_command))]

\* C18: getExistingManagedMappings returns, for each key of hooks that is an
\* event name, the sound id of the last handler, groups and handlers taken
\* in order, whose command holds the marker and a valid token after
\* --sound, and nothing else: no entry for an event without such a handler
\* or for a key that is no event name; it returns on every document,
\* malformed ones included; and on the heap it returns the same entries in
\* a new object and leaves every object and array of the document as it
\* was.
C18_ExtractLastValidManaged ==
    /\ [](pc # "extract:start" =>
            /\ extracted.ok
            /\ extracted.value = Obj(ExpectedMappings(settings)))
    /\ [](pc = "extract:done" =>
            /\ returned.ok
            /\ Deep(heap, returned.value) = extracted.value
            /\ Deep(heap, roots.settings) = settings)
    /\ [][pc = "extract:heap" =>
            /\ Len(heap') = Len(heap) + 1
            /\ \A a \in 1..Len(heap) : heap'[a] = heap[a]]_vars

C18_Witness ==
    /\ pc = "extract:done"
    /\ settings = Obj(K_hooks :> Obj(EvStop :> Arr(<<
           GroupOf(<< ManagedHandler(Str(CommandTemplate(EvStop, CommonPop))),
                      ManagedHandler(Str(CommandTemplate(EvStop, Ring1))) >>),
           GroupOf(<< >>) >>)))
    /\ extracted.value = Obj(EvStop :> Str(Ring1))
    /\ Deep(heap, returned.value) = Obj(EvStop :> Str(Ring1))


\* ---------------------------------------------------------------------------
\* The order override of listSoundsGrouped (sounds.js, lines 87-185).
\* ---------------------------------------------------------------------------

MaxOrderEntries == 3

\* Lines 33-85 run to the end: the manifest, then common, game and custom.
buildSoundPathMap(f) ==
    LET m == FromManifest(Gathered(EmptyIndex, << >>), f.manifest, 1)
        c == FromDir(m, f.common, 1, CommonPrefix, CommonDir)
        g == FromDir(c, f.game, 1, GamePrefix, GameDir)
    IN  FromDir(g, f.custom, 1, CustomPrefix, CustomSoundsDir).map

\* Entries of an order.json group: ids the catalog holds and one it does
\* not, with and without a label, and entries that name no id.
OrderEntryValues ==
    { Str(Ring10), Str(Ring1),
      Obj((K_id :> Str(Ring2)) @@ (K_label :> Str(BeepMp3))),
      Obj((K_id :> Str(Ring1)) @@ (K_label :> Num(7))),
      Str(UnknownId),
      Obj((K_id :> Str(UnknownId)) @@ (K_label :> Str(PopMp3))),
      Obj(K_label :> Str(PopWav)),
      Num(7) }

\* What JSON.parse of order.json gives, Null when the file is missing or is
\* not JSON.
OrderDocs ==
    { Obj(K_ring :> Arr(s)) : s \in SeqsUpTo(OrderEntryValues, MaxOrderEntries) }
    \cup { Null, Str(Ring1), Num(7), Bool(TRUE), Arr(<< Str(Ring10), Str(Ring1) >>),
           Obj(K_ring :> Str(Ring10)),
           Obj(K_ring :> Obj(K_id :> Str(Ring10))),
           Obj((K_ring :> Null) @@ (K_common :> Arr(<< Str(CommonPrefix \o Bell) >>))),
           Obj((K_common :> Arr(<< Str(Ring10), Str(CommonPrefix \o <<"b", "e", "e", "p">>),
                                   Obj((K_id :> Str(Ring1)) @@ (K_label :> Str(PopMp3))) >>))
               @@ (K_custom :> Arr(<< Obj((K_id :> Str(CustomPrefix \o <<"h", "e", "l", "l", "o">>))
                                          @@ (K_label :> Str(HelloMp3))) >>))
               @@ (K_game :> Arr(<< >>))) }

OrderInstallations ==
    { Files(RingItems(<< Ring10, Ring1, Ring2 >>), CommonMixed, Arr(<< Sound(CoinWav) >>),
            Arr(<< Sound(HelloMp3) >>), order) : order \in OrderDocs }
    \cup { Files(Null, CommonMixed, Null, Null, order) : order \in OrderDocs }

\* listSoundsGrouped() has awaited buildSoundPathMap() (line 157) and grouped
\* the ids (lines 158-180); applyCustomOrder (line 182) is next.
InitOrder ==
    /\ files \in OrderInstallations
    /\ soundPathCache = buildSoundPathMap(files)
    /\ atInvalidate = [called |-> FALSE, custom |-> {}]
    /\ tasks = << AfterBuild(Task("listSoundsGrouped", "start", FALSE, EmptyIndex),
                             soundPathCache) >>
    /\ looked = NotRun
    /\ pc = "order"
    /\ ReconcilerIdle
    /\ ValidatorIdle
    /\ HeapIdle
    /\ PreviewIdle
    /\ AcquireIdle
    /\ EditorIdle

ApplyCustomOrder == \E t \in 1..Len(tasks) : ReadOrder(t)

NextOrder == ApplyCustomOrder

SpecOrder == InitOrder /\ [][NextOrder]_vars

\* The elements of s at the positions in keep, in their order in s.
Pick(s, keep) ==
    [k \in 1..Cardinality(keep) |->
        s[CHOOSE i \in keep : Cardinality({j \in keep : j <= i}) = k]]

\* The override names a list for this group.
ListsGroup(order, key) ==
    /\ order.t = "object"
    /\ OrderKey(key) \in DOMAIN order.o
    /\ order.o[OrderKey(key)].t = "array"

\* The id an entry of the list names, << >> when it names none.
NamedId(entry) ==
    CASE entry.t = "string" -> entry.s
      [] entry.t = "object" /\ K_id \in DOMAIN entry.o /\ entry.o[K_id].t = "string" ->
             entry.o[K_id].s
      [] OTHER -> << >>

NamedIds(order, key) ==
    LET list == order.o[OrderKey(key)].a
    IN  [i \in 1..Len(list) |-> NamedId(list[i])]

\* The ids of the group the list names, each once, in the list's order.
ListedFirst(ids, named) ==
    Pick(named, {i \in 1..Len(named) :
                    /\ InSeq(named[i], ids)
                    /\ \A j \in 1..(i - 1) : named[j] # named[i]})

Elements(s) == {s[i] : i \in 1..Len(s)}

Reordered(ids, new, order, key) ==
    IF ListsGroup(order, key)
    THEN LET front == ListedFirst(ids, NamedIds(order, key))
         IN  /\ Len(new) = Len(ids)
             /\ Elements(new) = Elements(ids)
             /\ SubSeq(new, 1, Len(front)) = front
             /\ {new[i] : i \in (Len(front) + 1)..Len(new)}
                    = Elements(ids) \ Elements(NamedIds(order, key))
    ELSE new = ids

\* Some entry of the group's list gives this id this label.
LabelledIn(order, key, id, label) ==
    /\ ListsGroup(order, key)
    /\ \E i \in 1..Len(order.o[OrderKey(key)].a) :
           LET entry == order.o[OrderKey(key)].a[i]
           IN  /\ NamedId(entry) = id
               /\ entry.t = "object"
               /\ K_label \in DOMAIN entry.o
               /\ entry.o[K_label] = Str(label)

\* C21: applying the order override permutes each group: the ids the
\* override lists that the group holds come first, in the override's order
\* and once each, then every unlisted id; the set of ids is the same; a
\* label is attached only to an id of the group whose list gives it; a
\* missing or malformed override leaves the groups as they were, and the
\* listing completes.
C21_OrderOverrideIsPermutation ==
    [][\A t \in 1..Len(tasks) :
          (t <= Len(tasks') /\ tasks[t].at = "order" /\ tasks'[t] # tasks[t]) =>
              /\ tasks'[t].at = "done"
              /\ \A k \in 1..Len(GroupKeys) :
                     Reordered(tasks[t].grouped[GroupKeys[k]],
                               tasks'[t].grouped[GroupKeys[k]],
                               files.order, GroupKeys[k])
              /\ \A id \in DOMAIN tasks'[t].labels :
                     \E k \in 1..Len(GroupKeys) :
                         /\ InSeq(id, tasks[t].grouped[GroupKeys[k]])
                         /\ LabelledIn(files.order, GroupKeys[k], id, tasks'[t].labels[id])]_vars

\* The override lists ring10, ring2 with a label, an id the catalog lacks
\* and ring10 again: the listing is ring10, ring2, ring1 and ring2 alone is
\* labelled.
C21_Witness ==
    /\ pc = "order"
    /\ Len(tasks) = 1
    /\ tasks[1].at = "done"
    /\ files.order = Obj(K_ring :> Arr(<< Str(Ring10),
                             Obj((K_id :> Str(Ring2)) @@ (K_label :> Str(BeepMp3))),
                             Str(UnknownId) >>))
    /\ tasks[1].grouped.ring = << Ring10, Ring2, Ring1 >>
    /\ DOMAIN tasks[1].labels = {Ring2}


\* ---------------------------------------------------------------------------
\* An import followed by invalidateSoundCache() and a listing, the sequence
\* cli.js runs after an acquisition (lines 261-263).
\* ---------------------------------------------------------------------------

\* The custom directory before the import: none, an empty one, one holding
\* another sound, and ones holding a file with the imported file's stem.
RefreshCustomDirs ==
    {Null, Arr(<< >>), Arr(<< Sound(HelloMp3) >>), Arr(<< Sound(MySoundMp3) >>),
     Arr(<< Sound(MySoundWav) >>)}

\* A listing has built the index; importSound(MySoundPath) is called next.
InitRefresh ==
    /\ acqInput = MySoundPath
    /\ source = FileSource(10 * 1024, "riff")
    /\ acqAt = "start"
    /\ effects = << >>
    /\ acqResult = NotRun
    /\ imported = << >>
    /\ \E custom \in RefreshCustomDirs :
           /\ files = Files(RingItems(<< Ring1 >>), Null, Null, custom, Null)
           /\ bytes = [name \in CustomNames(custom) |-> "old"]
    /\ soundPathCache = buildSoundPathMap(files)
    /\ atInvalidate = [called |-> FALSE, custom |-> {}]
    /\ tasks = << AfterBuild(Task("listSounds", "start", FALSE, EmptyIndex),
                             soundPathCache) >>
    /\ looked = NotRun
    /\ pc = "importSound"
    /\ ReconcilerIdle
    /\ ValidatorIdle
    /\ HeapIdle
    /\ PreviewIdle
    /\ EditorIdle

\* The acquisition has returned: invalidateSoundCache() (sounds.js 24-26),
\* after which the caller lists the sounds again.
RefreshAfterAcquire ==
    /\ pc = "importSound"
    /\ acqAt = "done"
    /\ acqResult.ok
    /\ pc' = "catalog"
    /\ soundPathCache' = Null
    /\ atInvalidate' = [called |-> TRUE, custom |-> CustomSoundFiles(files.custom)]
    /\ UNCHANGED << files, tasks, looked, varsAcquire, varsReconciler, varsValidator,
                    varsHeap, varsPreview, varsEditor >>

NextRefresh ==
    \/ NextImport
    \/ RefreshAfterAcquire
    \/ StartListing
    \/ BuildStep
    \/ ResolveSoundPath

SpecRefresh == InitRefresh /\ [][NextRefresh]_vars

\* C22: once the acquisition has returned (id, path) and the catalog has
\* been invalidated and rebuilt, id is a key of the index, the index maps
\* id to the returned path, and every id of the index built before the
\* acquisition is mapped to the path it had.
C22_AcquisitionAddsEntry ==
    \A t \in 1..Len(tasks) :
        (acqResult.ok /\ tasks[t].at = "done" /\ tasks[t].after) =>
            /\ acqResult.value.soundId \in DOMAIN tasks[t].map.o
            /\ tasks[t].map.o[acqResult.value.soundId] = Str(acqResult.value.filePath)
            /\ \A id \in DOMAIN tasks[1].map.o :
                   /\ id \in DOMAIN tasks[t].map.o
                   /\ tasks[t].map.o[id] = tasks[1].map.o[id]


\* C23: playSoundPreview returns to its caller without raising, whatever
\* the sound id, whether or not the index is built, a player is found or
\* the spawn succeeds.
C23_PreviewNeverRaises ==
    called # NotRun /\ called.op = "playSoundPreview" => called.ok


\* C24: a generateTts call whose text passed validation ends, returning or
\* failing.  Once the timer has aborted the request the call fails with the
\* abort error, which is not the HTTP-status error, and no file is written;
\* whenever the call has ended, a timer that was set has been cleared.
C24_FetchNeverHangs ==
    /\ (acqAt = "mkdir") ~> (acqAt = "done" /\ acqResult # NotRun)
    /\ [](Called("abort") =>
              /\ ~Called("writeFile")
              /\ bytes = NoBytes
              /\ acqAt = "done" => ~acqResult.ok /\ acqResult.error = "abort")
    /\ [](acqAt = "done" /\ ~acqResult.ok /\ acqResult.error = "status" => ~Called("abort"))
    /\ [](acqAt \in {"writeFile", "done"} /\ Called("setTimeout") => Called("clearTimeout"))

\* The endpoint sent its headers and then no body: the timer aborted the
\* request and the call failed with the abort error.
C24_Witness ==
    /\ Called("arrayBuffer")
    /\ Called("abort")
    /\ acqAt = "done"
    /\ ~acqResult.ok
    /\ acqResult.error = "abort"
    /\ effects[Len(effects)].op = "clearTimeout"


\* The name a path of the custom directory ends with.
NameIn(p) == SubSeq(p, Len(CustomSoundsDir) + 2, Len(p))

\* The paths fs.access was asked about, in order.
AccessedPaths ==
    LET at == {i \in 1..Len(effects) : effects[i].op = "access"}
    IN  [k \in 1..Cardinality(at) |-> Pick(effects, at)[k].what]

\* C25: the destination-name loop of importSound ends; it tries
\* <slug><ext> and then <slug>-<hash(resolvedPath + attempt)><ext> for
\* attempt 0, 1, 2, ...; the source is read only once a name has been found
\* that no file of the custom directory bears, and that name is written; no
\* step changes the content of a file the custom directory holds; the ids
\* returned by successive imports of one source all differ.
C25_ImportNeverOverwrites ==
    /\ (acqAt = "access") ~> (acqAt = "readFile")
    /\ [](\A k \in 1..Len(AccessedPaths) :
              NameIn(AccessedPaths[k]) =
                  IF k = 1 THEN ImportBaseSlug(acqInput) \o SuffixOf(Trim(acqInput))
                  ELSE ImportBaseSlug(acqInput) \o << "-" >>
                           \o shortHash(ResolvePath(acqInput) \o ToDecimal(k - 2))
                           \o SuffixOf(Trim(acqInput)))
    /\ [](acqAt \in {"readFile", "writeFile"} =>
              /\ NameIn(AccessedPaths[Len(AccessedPaths)]) \notin CustomNames(files.custom)
              /\ \A k \in 1..(Len(AccessedPaths) - 1) :
                     NameIn(AccessedPaths[k]) \in CustomNames(files.custom)
              /\ acqAt = "writeFile" =>
                     effects[Len(effects)].what = AccessedPaths[Len(AccessedPaths)])
    /\ [][/\ \A name \in DOMAIN bytes : name \in DOMAIN bytes' /\ bytes'[name] = bytes[name]
          /\ CustomNames(files.custom) \subseteq CustomNames(files'.custom)]_vars
    /\ [](\A i \in 1..Len(imported) :
              /\ \A j \in 1..Len(imported) : i # j => imported[i].soundId # imported[j].soundId
              /\ acqAt = "done" /\ acqResult.ok =>
                     /\ acqResult.value.soundId # imported[i].soundId
                     /\ acqResult.value.filePath # imported[i].filePath)

\* My Sound!.wav has been imported three times into a directory that held
\* my-sound.wav: the third name was found after the hash of attempts 0 to 9
\* gave the second name again.
C25_Witness ==
    /\ Len(imported) = 2
    /\ acqAt = "done"
    /\ acqResult.ok
    /\ Len(AccessedPaths) > 3
    /\ NameIn(AccessedPaths[2]) = NameIn(AccessedPaths[3])
    /\ MySoundWav \in DOMAIN bytes
    /\ bytes[MySoundWav] = "old"


\* ---------------------------------------------------------------------------
\* Mappings whose sound the catalog lacks (cli.js 69-84 and 122-231).
\* ---------------------------------------------------------------------------

\* play.js 117-126: playSound(soundId) with a player found; exit is what
\* execFile reports.
playSound(cache, soundId, exit) ==
    LET file == resolveSoundPath(cache, soundId)
    IN  IF ~file.ok THEN file
        ELSE IF ~IsString(file.value) THEN Throw("ERR_INVALID_ARG_TYPE", soundId)
        ELSE IF exit # 0 THEN Throw("Command failed", soundId)
        ELSE Return(Undefined)

\* The entries of the mappings whose sound id is no key of the index.
Dangling(entries, index) ==
    {i \in 1..Len(entries) : entries[i][2].s \notin DOMAIN index.o}

HasEntry(entries, e) == \E i \in 1..Len(entries) : entries[i][1] = e

\* C26: a mapping loaded from the settings whose sound id is valid and is
\* no key of the catalog index is written back by an apply that follows no
\* edit, as a managed handler of the same event with the same id; an event
\* loses its mapping only by Disable on that event or by Remove all; and
\* playing such an id fails with the unknown-sound error.
C26_DanglingMappingsKept ==
    /\ [](writes # << >> /\ edits = 0 =>
              \A i \in Dangling(mappings, PreviewIndex) :
                  /\ mappings[i][1] \in DOMAIN ExpectedMappings(writes[1])
                  /\ ExpectedMappings(writes[1])[mappings[i][1]] = mappings[i][2])
    /\ [][\A i \in 1..Len(mappings) :
              ~HasEntry(mappings', mappings[i][1]) =>
                  \/ edAt = "event" /\ chosen = mappings[i][1] /\ edAt' = "menu"
                  \/ edAt = "menu" /\ chosen' = RemoveAllChoice]_vars
    /\ [](edAt = "menu" /\ edits = 0 =>
              \A i \in Dangling(mappings, PreviewIndex) :
                  /\ ~playSound(PreviewIndex, mappings[i][2].s, 0).ok
                  /\ playSound(PreviewIndex, mappings[i][2].s, 0).error = "Unknown sound")


\* ---------------------------------------------------------------------------
\* An acquired sound is assigned to an event and applied (cli.js 205-209
\* and 259-267).
\* ---------------------------------------------------------------------------

LongNamePath ==
    << "/", "h", "o", "m", "e", "/", "u", "/", "A", "_", "v", "e", "r", "y", "-", "l",
      "o", "n", "g", "_", "F", "I", "L", "E", " ", "n", "a", "m", "e", " ", "(", "f", "i",
      "n", "a", "l", " ", "m", "i", "x", ")", " ", "v", "2", " ", "2", "0", "2", "4", "-",
      "0", "1", "-", "0", "1", " ", "t", "a", "k", "e", "_", "0", "3", ".", "W", "A", "V" >>

BangPath ==
    << "/", "h", "o", "m", "e", "/", "u", "/", "!", "!", "!", ".", "m", "p", "3" >>

UnderscorePath ==
    << "/", "h", "o", "m", "e", "/", "u", "/", "_", "x", "_", ".", "w", "a", "v" >>

LongNameId ==
    << "c", "u", "s", "t", "o", "m", "/", "a", "_", "v", "e", "r", "y", "-", "l", "o",
      "n", "g", "_", "f", "i", "l", "e", "-", "n", "a", "m", "e", "-", "f", "i", "n", "a",
      "l", "-", "m", "i", "x", "-", "v", "2", "-", "2", "0", "2", "4", "-" >>

\* Source files whose names are long, hold no letter or digit, or hold
\* underscores.
AssignScenarios ==
    {<< p, FileSource(10 * 1024, "riff") >> : p \in {LongNamePath, BangPath, UnderscorePath}}

InitAssignImport ==
    /\ \E sc \in AssignScenarios : acqInput = sc[1] /\ source = sc[2]
    /\ acqAt = "start"
    /\ effects = << >>
    /\ acqResult = NotRun
    /\ imported = << >>
    /\ soundPathCache = Null
    /\ files = NoFiles
    /\ bytes = NoBytes
    /\ tasks = << >>
    /\ looked = NotRun
    /\ atInvalidate = [called |-> FALSE, custom |-> {}]
    /\ pc = "importSound"
    /\ ReconcilerIdle
    /\ ValidatorIdle
    /\ HeapIdle
    /\ PreviewIdle
    /\ EditorIdle

InitAssign == InitTts \/ InitImport \/ InitAssignImport

\* The settings the acquired sound is applied to.
AssignDocs ==
    { Obj(NoProps),
      Obj(K_hooks :> Obj(EvStop :> Arr(<< GroupOf(<< Handler(ForeignCommand),
              ManagedHandler(Str(CommandTemplate(EvStop, Ring2))) >>) >>))) }

\* cli.js 266: mappings[eventName] = newSoundId; 208: Apply; and a later
\* run of the editor reads the mappings back (line 126).
AssignAcquired ==
    /\ acqAt = "done"
    /\ acqResult.ok
    /\ first = NotRun
    /\ \E doc \in AssignDocs, eventName \in EditorEvents :
           /\ settings' = doc
           /\ mappings' = << << eventName, Str(acqResult.value.soundId) >> >>
           /\ first' = applyMappingsToSettings(doc, mappings')
           /\ extracted' = IF first'.ok
                           THEN Return(getExistingManagedMappings(first'.value))
                           ELSE NotRun
    /\ UNCHANGED << produced, second, varsValidator, varsHeap, pc, varsLater >>

NextAssign ==
    \/ NextTts
    \/ NextImport
    \/ AssignAcquired

SpecAssign == InitAssign /\ [][NextAssign]_vars

\* The characters validateSoundId admits.
IdChars ==
    {Ascii[i] : i \in {j \in 1..Len(Ascii) :
        \/ InRange(Ascii[j], "a", "z") \/ InRange(Ascii[j], "A", "Z")
        \/ InRange(Ascii[j], "0", "9") \/ Ascii[j] \in {"/", "_", "-"}}}

\* C27: the id generateTts or importSound returns is custom/ followed by
\* characters of [A-Za-z0-9/_-] only and is at most 120 characters long;
\* assigning it to an event and applying succeeds, and the mappings read
\* back from the applied settings give the id for that event.
C27_AdapterIdsAreValid ==
    /\ acqAt = "done" /\ acqResult.ok =>
           /\ StartsWith(acqResult.value.soundId, CustomPrefix)
           /\ Len(acqResult.value.soundId) > Len(CustomPrefix)
           /\ Len(acqResult.value.soundId) <= 120
           /\ \A i \in 1..Len(acqResult.value.soundId) :
                  acqResult.value.soundId[i] \in IdChars
    /\ first # NotRun =>
           /\ first.ok
           /\ extracted.ok
           /\ mappings[1][1] \in DOMAIN extracted.value.o
           /\ extracted.value.o[mappings[1][1]] = mappings[1][2]
           /\ acqAt = "done" /\ acqResult.ok /\ imported = << >> =>
                  mappings[1][2] = Str(acqResult.value.soundId)

\* A file whose name is cut at 40 characters, leaving a dash at the end,
\* was imported, assigned to an event and applied.
C27_Witness ==
    /\ acqInput = LongNamePath
    /\ acqResult.ok
    /\ acqResult.value.soundId = LongNameId
    /\ first # NotRun
    /\ first.ok
    /\ extracted.ok


\* The exit or error event of child p is delivered in this step.
Delivered(p) ==
    \/ procs[p].exitQueued /\ ~procs'[p].exitQueued
    \/ procs[p].errorQueued /\ ~procs'[p].errorQueued

\* This step sent SIGKILL to child p.
Killed(p) ==
    /\ Len(signals') = Len(signals) + 1
    /\ signals'[Len(signals')].target = p

\* C28: an exit or error event of a child that is not the tracked one
\* leaves the tracked handle as it is; the handle goes from a child to none
\* only in a step that kills that child (stopPreview) or that delivers an
\* exit or error event of that child; hence a child that is alive is the
\* tracked one, and a following stopPreview or playSoundPreview leaves it
\* dead.
C28_LateEventKeepsHandle ==
    /\ [][\A p \in 1..Len(procs) :
              Delivered(p) /\ p # previewProcess =>
                  previewProcess' = previewProcess]_vars
    /\ [][previewProcess # NoProcess /\ previewProcess' = NoProcess =>
              Killed(previewProcess) \/ Delivered(previewProcess)]_vars
    /\ [](\A p \in Running :
              /\ p = previewProcess
              /\ \A esrch \in BOOLEAN :
                     /\ ~stopPreview(PlayState, esrch).st.procs[p].alive
                     /\ \A soundId \in PreviewSoundIds, outcome \in SpawnOutcomes :
                            ~playSoundPreview(PlayState, soundPathCache, soundId,
                                              esrch, outcome).st.procs[p].alive)

\* Child 1 was started, child 2 was started (killing child 1), and the exit
\* event of child 1 was delivered after that: child 2 is still tracked and
\* alive.
C28_Witness ==
    /\ Len(procs) = 2
    /\ procs[1].pid # NoPid
    /\ ~procs[1].alive
    /\ ~procs[1].exitQueued
    /\ Len(signals) = 1
    /\ signals[1].target = 1
    /\ procs[2].alive
    /\ previewProcess = 2


\* The file exists, or its path does, and its content cannot be read or is
\* no JSON text.
Unusable(file) == file.kind \in {"garbage", "empty", "unreadable", "directory"}

\* The file is missing.
Missing(file) == file.kind \in {"absent", "notdir"}

\* C29: when the settings file cannot be read or parsed, readJsonIfExists
\* reports failure, the editor ends at the failed read with no mapping
\* loaded, no menu choice made and nothing handed to fs.writeFile, no step
\* follows, and the file is never changed; when the file is missing, and
\* only then, the editor goes on with the empty document {} and no
\* mappings.
C29_UnreadableNeverOverwritten ==
    /\ [](/\ Unusable(disk) => ~readJsonIfExists(disk).ok
          /\ Unusable(disk) /\ edAt \notin {"scope", "read", "exited"} =>
                /\ edAt = "readFailed"
                /\ settings = Undefined
                /\ mappings = << >>
                /\ chosen = << >>
                /\ first = NotRun
                /\ edits = 0
          /\ Unusable(disk) => writes = << >>
          /\ edAt = "readFailed" => Unusable(disk)
          /\ Missing(disk) => readJsonIfExists(disk) = Return(Obj(NoProps))
          /\ Missing(disk) /\ edAt = "menu" /\ edits = 0 /\ first = NotRun =>
                settings = Obj(NoProps) /\ mappings = << >>)
    /\ [][Unusable(disk) => disk' = disk]_vars
    /\ [][edAt = "readFailed" => FALSE]_vars

\* The settings file holds text that is no JSON and the editor has ended at
\* the read.
C29_Witness ==
    /\ disk = NotJsonFile
    /\ edAt = "readFailed"
    /\ writes = << >>
=============================================================================
